---- MODULE Spec2Model ----
(***************************************************************************)
(* Verification model of the MidasProject engine.                          *)
(*                                                                         *)
(* Spec    : BacktestEngine.run_backtest driving OrderManager,             *)
(*           PositionManager, FeeCalculator and AccountManager.            *)
(* SpecOM  : OrderManager under arbitrary place/cancel/process calls.      *)
(*                                                                         *)
(* Decimal amounts of money (PnL, fees, balances) are integers counting    *)
(* 1/Scale units, so that quantity * price * fee_rate is exact; prices and *)
(* quantities are whole numbers.                                           *)
(*                                                                         *)
(* Orders are objects: `orders' is the heap (index = object identity,      *)
(* which is also the unique order_id the factories generate) and `pending' *)
(* is OrderManager._pending_orders, a list of references.  Every order     *)
(* handed to place_order is a freshly created object in status NEW.        *)
(*                                                                         *)
(* BacktestEngine passes the fields of PositionParams / TradeParams as     *)
(* keyword arguments; the model binds each keyword to the parameter field  *)
(* of the same name.                                                       *)
(***************************************************************************)
EXTENDS Integers, Sequences, FiniteSets, TLC

\* ---------------------------------------------------------------- bounds
NumCandles == 3
MaxPrice == 3
MaxQty == 2
MaxOrders == 2
MaxPerCall == 1
InitialBalance == 3
MaxCalls == 4
MaxPositions == 1
PriceTick == 12
MaxSkew == 1
MaxResetOrders == 1
MaxMinute == 6
ApiLimit == 2
MaxRequests == 2
MaxRows == 3
MaxVolume == 2
MaxRuns == 3
NumSymbols == 3
MaxTrades == 3
MaxPnl == 2
MaxBalance == 2

\* ------------------------------------------------------ program constants
Scale == 10000
MakerFeeRate == 2
TakerFeeRate == 4
Leverage == 1

VARIABLES
    candles,            \* closes of the input candles read so far
    idx,                \* loop index i of run_backtest (1-based)
    pc,                 \* position of run_backtest
    orders,             \* heap of order objects
    pending,            \* OrderManager._pending_orders
    positions,          \* AccountManager._positions[account_id]
    current_trades,     \* BacktestEngine._current_trades (insertion order)
    completed_trades,   \* BacktestEngine._completed_trades
    account,            \* AccountData
    fills,              \* history: every order returned by process_orders
    placed,             \* history: the candle during which each order was placed
    steps,              \* history: the substeps executed so far
    last,               \* history: the last OrderManager call and its result
    clock,              \* wall clock read by datetime.now()
    run2,               \* a second run on a fresh engine with the same inputs
    wall,               \* time.time(), in minutes
    venue,              \* open minutes of the 1m candles the venue holds
    tables,             \* the interval tables of one symbol
    upd,                \* DatabaseUpdater.update_symbol in progress
    agg,                \* an aggregate_to_interval call and its result
    report,             \* the last process_csv_file or update_symbol call
    fetch,              \* fetch_historical_data: its loop and its file
    symbol_run,         \* a pipeline run over a list of symbols
    analysis            \* an analyze_backtest call and its metrics

engine_vars == <<candles, idx, pc, orders, pending, positions, current_trades,
                 completed_trades, account, fills, placed, steps, last, clock,
                 run2>>
data_vars == <<wall, venue, tables, upd, agg, report, fetch, symbol_run, analysis>>
vars == <<engine_vars, data_vars>>

\* ------------------------------------------------------------ enumerations
OrderSides == {"BUY", "SELL"}
OrderTypes == {"MARKET", "LIMIT", "STOP_MARKET", "STOP_LIMIT", "TAKE_PROFIT"}
NoPrice == 0 - 1
NoTime == 0 - 1

Prices == 1..MaxPrice
Thresholds == {MaxPrice - 1}
Quantities == {0, MaxQty}

Abs(x) == IF x < 0 THEN 0 - x ELSE x
Max2(a, b) == IF a >= b THEN a ELSE b
Min2(a, b) == IF a <= b THEN a ELSE b

\* An order object as the factories build it: status NEW, filled_at None.
\* price holds the typed price field of the order's class (price, stop_price
\* or target_price); limit_price exists on stop-limit orders only.
NewOrder(id, side, qty, type, price, limit) ==
    [order_id |-> id, side |-> side, quantity |-> qty, order_type |-> type,
     price |-> price, limit_price |-> limit, status |-> "NEW",
     filled_at |-> NoTime]

\* The orders a strategy may build.
OrderInputs ==
    { [side |-> s, quantity |-> q, order_type |-> "MARKET",
       price |-> NoPrice, limit_price |-> NoPrice] :
          s \in OrderSides, q \in Quantities }
    \cup
    { [side |-> s, quantity |-> q, order_type |-> t,
       price |-> p, limit_price |-> IF t = "STOP_LIMIT" THEN p ELSE NoPrice] :
          s \in OrderSides, q \in Quantities,
          t \in OrderTypes \ {"MARKET"}, p \in Thresholds }

\* ---------------------------------------------------------- OrderValidator
\* BalanceService.get_balance / has_sufficient_balance on the quote asset.
has_sufficient_balance(acct, amount) == acct.free >= amount

validate_balance(order, acct) ==
    IF order.side = "BUY"
    THEN LET required_amount ==
                 IF order.order_type = "LIMIT"
                 THEN order.quantity * order.price * Scale
                 ELSE order.quantity * Scale
         IN  has_sufficient_balance(acct, required_amount)
    ELSE TRUE

validate_order_data(order) ==
    IF order.quantity <= 0 THEN FALSE
    ELSE IF order.order_type = "LIMIT" /\ order.price <= 0 THEN FALSE
    ELSE IF order.order_type \in {"STOP_MARKET", "STOP_LIMIT"} /\ order.price <= 0 THEN FALSE
    ELSE IF order.order_type = "STOP_LIMIT" /\ order.limit_price <= 0 THEN FALSE
    ELSE IF order.order_type = "TAKE_PROFIT" /\ order.price <= 0 THEN FALSE
    ELSE TRUE

validate_order(order, acct) ==
    IF ~validate_order_data(order) THEN FALSE
    ELSE IF ~validate_balance(order, acct) THEN FALSE
    ELSE TRUE

\* ----------------------------------------------------------- OrderExecutor
can_execute_limit_order(order, current_price) ==
    IF order.side = "BUY" THEN current_price <= order.price
    ELSE current_price >= order.price

\* Mutant: a stop that needs the price to cross its threshold strictly.
can_execute_stop_market_order_strict(order, current_price) ==
    IF order.side = "BUY" THEN current_price > order.price
    ELSE current_price < order.price

can_execute_stop_market_order(order, current_price) ==
    IF order.side = "BUY" THEN current_price >= order.price
    ELSE current_price <= order.price

can_execute_stop_limit_order(order, current_price) ==
    IF order.side = "BUY" THEN current_price >= order.price
    ELSE current_price <= order.price

can_execute_take_profit_order(order, current_price) ==
    IF order.side = "BUY" THEN current_price >= order.price
    ELSE current_price <= order.price

\* Mutant: the dispatch without the Market case, so a Market order (no typed
\* price class) falls through to False.
can_execute_no_market_case(order, current_price) ==
    IF order.order_type = "LIMIT" THEN can_execute_limit_order(order, current_price)
    ELSE IF order.order_type = "STOP_MARKET" THEN can_execute_stop_market_order(order, current_price)
    ELSE IF order.order_type = "STOP_LIMIT" THEN can_execute_stop_limit_order(order, current_price)
    ELSE IF order.order_type = "TAKE_PROFIT" THEN can_execute_take_profit_order(order, current_price)
    ELSE FALSE

can_execute(order, current_price) ==
    IF order.order_type = "MARKET" THEN TRUE
    ELSE IF order.order_type = "LIMIT" THEN can_execute_limit_order(order, current_price)
    ELSE IF order.order_type = "STOP_MARKET" THEN can_execute_stop_market_order(order, current_price)
    ELSE IF order.order_type = "STOP_LIMIT" THEN can_execute_stop_limit_order(order, current_price)
    ELSE IF order.order_type = "TAKE_PROFIT" THEN can_execute_take_profit_order(order, current_price)
    ELSE FALSE

\* Mutant: reports the execution without marking the order FILLED.
execute_order_unmarked(order, current_price, now) ==
    IF ~can_execute(order, current_price)
    THEN [ok |-> FALSE, order |-> order]
    ELSE [ok |-> TRUE, order |-> order]

\* execute_order: [ok |-> the returned flag, order |-> the order after the call].
execute_order(order, current_price, now) ==
    IF ~can_execute(order, current_price)
    THEN [ok |-> FALSE, order |-> order]
    ELSE [ok |-> TRUE,
          order |-> [order EXCEPT !.status = "FILLED", !.filled_at = now]]

\* ------------------------------------------------------------ OrderManager
\* list.remove: drops the first occurrence of the reference.
RECURSIVE RemoveFirst(_, _)
RemoveFirst(s, x) ==
    IF s = <<>> THEN <<>>
    ELSE IF Head(s) = x THEN Tail(s)
    ELSE <<Head(s)>> \o RemoveFirst(Tail(s), x)

InSeq(s, x) == \E k \in 1..Len(s) : s[k] = x

\* Mutant: every queued order, whatever its status.
get_pending_orders_unfiltered(ords, pend) == pend

get_pending_orders(ords, pend) ==
    SelectSeq(pend, LAMBDA r : ords[r].status = "NEW")

\* The loop of process_orders over the snapshot get_pending_orders() took;
\* st = [orders, pending, executed].
RECURSIVE process_loop(_, _, _, _)
process_loop(snapshot, st, current_price, now) ==
    IF snapshot = <<>> THEN st
    ELSE LET r == Head(snapshot)
             res == execute_order(st.orders[r], current_price, now)
         IN  IF res.ok
             THEN process_loop(Tail(snapshot),
                      [orders |-> [st.orders EXCEPT ![r] = res.order],
                       pending |-> IF InSeq(st.pending, r)
                                   THEN RemoveFirst(st.pending, r)
                                   ELSE st.pending,
                       executed |-> Append(st.executed, r)],
                      current_price, now)
             ELSE process_loop(Tail(snapshot), st, current_price, now)

process_orders(ords, pend, current_price, now) ==
    process_loop(get_pending_orders(ords, pend),
                 [orders |-> ords, pending |-> pend, executed |-> <<>>],
                 current_price, now)

place_order(pend, r) == Append(pend, r)

\* cancel_order: the first queued order with that id in status NEW, or 0.
cancel_target(ords, pend, order_id) ==
    LET hits == { k \in 1..Len(pend) :
                    ords[pend[k]].order_id = order_id /\ ords[pend[k]].status = "NEW" }
    IN  IF hits = {} THEN 0
        ELSE pend[CHOOSE k \in hits : \A j \in hits : k <= j]

cancel_order(ords, pend, order_id) ==
    LET r == cancel_target(ords, pend, order_id)
    IN  IF r = 0 THEN ords
        ELSE [ords EXCEPT ![r].status = "CANCELED"]

\* ----------------------------------------------------------- PnLCalculator
calculate_unrealized_pnl(position, current_price) ==
    IF position.side = "LONG"
    THEN (current_price - position.entry_price) * position.size * Scale
    ELSE (position.entry_price - current_price) * position.size * Scale

\* Mutant: the closed quantity enters with its sign (no abs()).
calculate_realized_pnl_signed(position, close_price, close_quantity) ==
    IF position.side = "LONG"
    THEN (close_price - position.entry_price) * close_quantity * Scale
    ELSE (position.entry_price - close_price) * close_quantity * Scale

calculate_realized_pnl(position, close_price, close_quantity) ==
    IF position.side = "LONG"
    THEN (close_price - position.entry_price) * Abs(close_quantity) * Scale
    ELSE (position.entry_price - close_price) * Abs(close_quantity) * Scale

\* --------------------------------------------------------- PositionManager
create_position(side, size, entry_price, leverage, position_id, now) ==
    LET position == [position_id |-> position_id,
                     side |-> IF side = "LONG" THEN "LONG" ELSE "SHORT",
                     size |-> size,
                     entry_price |-> entry_price,
                     current_price |-> entry_price,
                     leverage |-> leverage,
                     entry_time |-> now,
                     status |-> "OPEN",
                     unrealized_pnl |-> 0,
                     realized_pnl |-> 0]
    IN  [position EXCEPT !.unrealized_pnl = calculate_unrealized_pnl(position, entry_price)]

update_position_price(position, current_price) ==
    LET p1 == [position EXCEPT !.current_price = current_price]
    IN  [p1 EXCEPT !.unrealized_pnl = calculate_unrealized_pnl(p1, current_price)]

\* close_position_full on an OPEN position: <<realized_pnl, position>>.
close_position_full(position, close_price) ==
    LET realized_pnl == calculate_unrealized_pnl(position, close_price)
    IN  <<realized_pnl,
          [position EXCEPT !.realized_pnl = realized_pnl,
                           !.size = 0,
                           !.status = "CLOSED",
                           !.unrealized_pnl = 0]>>

\* Decimal division: the quotient rounded half-even to the quantum (one price
\* tick here, the 28th significant digit in the source).  b # 0.
DecDiv(a, b) ==
    LET q == Abs(a) \div Abs(b)
        r == Abs(a) % Abs(b)
        m == IF 2 * r > Abs(b) \/ (2 * r = Abs(b) /\ q % 2 = 1) THEN q + 1 ELSE q
    IN  IF (a < 0) = (b < 0) THEN m ELSE 0 - m

\* add_to_position: [raised, position].  The division raises
\* decimal.DivisionByZero / InvalidOperation when the new size is 0, after
\* the size has been assigned.
add_to_position(position, additional_size, additional_price) ==
    IF position.status # "OPEN"
    THEN [raised |-> TRUE, position |-> position]
    ELSE IF position.side = "LONG" /\ additional_size < 0
    THEN [raised |-> TRUE, position |-> position]
    ELSE IF position.side = "SHORT" /\ additional_size > 0
    THEN [raised |-> TRUE, position |-> position]
    ELSE LET total_value == (position.entry_price * position.size)
                            + (additional_price * Abs(additional_size))
             p1 == [position EXCEPT !.size = @ + additional_size]
         IN  IF p1.size = 0
             THEN [raised |-> TRUE, position |-> p1]
             ELSE LET p2 == [p1 EXCEPT !.entry_price = DecDiv(total_value, p1.size)]
                  IN  [raised |-> FALSE,
                       position |-> [p2 EXCEPT !.unrealized_pnl =
                           calculate_unrealized_pnl(p2, p2.current_price)]]

\* Mutant: no check of close_size against the position size.
close_position_partial_unchecked(position, close_size, close_price) ==
    IF position.status # "OPEN"
    THEN [raised |-> TRUE, position |-> position, realized_pnl |-> 0]
    ELSE LET realized_pnl == calculate_realized_pnl(position, close_price, close_size)
             p1 == [position EXCEPT !.size = @ - close_size,
                                    !.realized_pnl = @ + realized_pnl]
             p2 == IF p1.size = 0 THEN [p1 EXCEPT !.status = "CLOSED"] ELSE p1
         IN  [raised |-> FALSE,
              position |-> [p2 EXCEPT !.unrealized_pnl =
                  calculate_unrealized_pnl(p2, p2.current_price)],
              realized_pnl |-> realized_pnl]

\* close_position_partial: [raised, position, realized_pnl]
close_position_partial(position, close_size, close_price) ==
    IF position.status # "OPEN"
    THEN [raised |-> TRUE, position |-> position, realized_pnl |-> 0]
    ELSE IF Abs(close_size) > Abs(position.size)
    THEN [raised |-> TRUE, position |-> position, realized_pnl |-> 0]
    ELSE LET realized_pnl == calculate_realized_pnl(position, close_price, close_size)
             p1 == [position EXCEPT !.size = @ - close_size,
                                    !.realized_pnl = @ + realized_pnl]
             p2 == IF p1.size = 0 THEN [p1 EXCEPT !.status = "CLOSED"] ELSE p1
         IN  [raised |-> FALSE,
              position |-> [p2 EXCEPT !.unrealized_pnl =
                  calculate_unrealized_pnl(p2, p2.current_price)],
              realized_pnl |-> realized_pnl]

\* Mutant: a full close that leaves the last unrealized PnL on the position.
close_position_full_checked_stale(position, close_price) ==
    IF position.status # "OPEN"
    THEN [raised |-> TRUE, position |-> position, realized_pnl |-> 0]
    ELSE LET res == close_position_full(position, close_price)
         IN  [raised |-> FALSE,
              position |-> [res[2] EXCEPT !.unrealized_pnl = position.unrealized_pnl],
              realized_pnl |-> res[1]]

\* close_position_full with its status check: [raised, position, realized_pnl]
close_position_full_checked(position, close_price) ==
    IF position.status # "OPEN"
    THEN [raised |-> TRUE, position |-> position, realized_pnl |-> 0]
    ELSE LET res == close_position_full(position, close_price)
         IN  [raised |-> FALSE, position |-> res[2], realized_pnl |-> res[1]]

\* ----------------------------------------------------------- FeeCalculator
\* Mutant: every order type charged at the maker rate.
fee_rate_maker_only(order_type) == MakerFeeRate

fee_rate(order_type) ==
    IF order_type = "MARKET" THEN TakerFeeRate ELSE MakerFeeRate

calculate_order_fee(order_type, quantity, price) ==
    quantity * price * fee_rate(order_type)

\* ------------------------------------------------------------ TradeFactory
create_trade(order, position, trade_id, now) ==
    [trade_id |-> trade_id,
     entry_order_type |-> order.order_type,
     entry_side |-> order.side,
     entry_quantity |-> order.quantity,
     entry_price |-> position.entry_price,
     entry_time |-> now,
     entry_order_id |-> order.order_id,
     position_side |-> position.side,
     leverage |-> position.leverage,
     position_id |-> position.position_id,
     exit_price |-> NoPrice,
     exit_time |-> NoTime,
     exit_order_id |-> "None",
     status |-> "OPEN",
     realized_pnl |-> 0,
     total_fees |-> 0,
     max_price |-> position.entry_price,
     min_price |-> position.entry_price,
     max_unrealized_pnl |-> 0,
     min_unrealized_pnl |-> 0]

\* ---------------------------------------------------------- AccountManager
create_account(initial_balance) ==
    [free |-> initial_balance * Scale, locked |-> 0,
     total_fees_paid |-> 0, total_pnl |-> 0]

\* BalanceService.get_total_balance: free + locked of the base currency
get_total_balance(acct) == acct.free + acct.locked

\* sum(pos.unrealized_pnl for pos in account_positions.values()
\*     if pos.status.value == "OPEN")
RECURSIVE open_unrealized_pnl(_)
open_unrealized_pnl(poss) ==
    IF poss = <<>> THEN 0
    ELSE (IF Head(poss).status = "OPEN" THEN Head(poss).unrealized_pnl ELSE 0)
         + open_unrealized_pnl(Tail(poss))

\* AccountManager.get_total_equity
get_total_equity(acct, poss) == get_total_balance(acct) + open_unrealized_pnl(poss)

\* get_position: the position with that id, if the account has one.
has_position(poss, position_id) == position_id \in 1..Len(poss)

\* ---------------------------------------------------------- BacktestEngine
\* eng = [positions, current_trades, completed_trades, account]
\* Mutant: a SELL opens its position with a positive size.
create_position_from_order_unsigned(order, fill_price, position_id, now) ==
    IF order.side = "BUY"
    THEN create_position("LONG", order.quantity, fill_price, Leverage, position_id, now)
    ELSE create_position("SHORT", order.quantity, fill_price, Leverage, position_id, now)

create_position_from_order(order, fill_price, position_id, now) ==
    IF order.side = "BUY"
    THEN create_position("LONG", order.quantity, fill_price, Leverage, position_id, now)
    ELSE create_position("SHORT", 0 - order.quantity, fill_price, Leverage, position_id, now)

\* Mutant: the entry fee is taken from the free balance as well.
process_order_execution_charging(eng, order, current_price, now) ==
    LET position == create_position_from_order(order, current_price,
                                               Len(eng.positions) + 1, now)
        trade == create_trade(order, position,
                     Len(eng.current_trades) + Len(eng.completed_trades) + 1, now)
        fee == calculate_order_fee(order.order_type, order.quantity, current_price)
    IN  [eng EXCEPT !.positions = Append(@, position),
                    !.current_trades = Append(@, trade),
                    !.account.total_fees_paid = @ + fee,
                    !.account.free = @ - fee]

process_order_execution(eng, order, current_price, now) ==
    LET position == create_position_from_order(order, current_price,
                                               Len(eng.positions) + 1, now)
        trade == create_trade(order, position,
                     Len(eng.current_trades) + Len(eng.completed_trades) + 1, now)
        fee == calculate_order_fee(order.order_type, order.quantity, current_price)
    IN  [eng EXCEPT !.positions = Append(@, position),
                    !.current_trades = Append(@, trade),
                    !.account.total_fees_paid = @ + fee]

\* The "for order in executed_orders" loop of run_backtest.
RECURSIVE handle_executed(_, _, _, _, _)
handle_executed(eng, ords, executed, current_price, now) ==
    IF executed = <<>> THEN eng
    ELSE handle_executed(
             IF ords[Head(executed)].status = "FILLED"
             THEN process_order_execution(eng, ords[Head(executed)], current_price, now)
             ELSE eng,
             ords, Tail(executed), current_price, now)

\* One iteration of the loop of _update_positions_and_trades.
update_trade(trade, position, current_price) ==
    [trade EXCEPT !.max_price = Max2(@, current_price),
                  !.min_price = Min2(@, current_price),
                  !.max_unrealized_pnl = Max2(@, position.unrealized_pnl),
                  !.min_unrealized_pnl = Min2(@, position.unrealized_pnl)]

RECURSIVE update_positions_and_trades(_, _, _)
update_positions_and_trades(eng, k, current_price) ==
    IF k > Len(eng.current_trades) THEN eng
    ELSE LET trade == eng.current_trades[k]
             pid == trade.position_id
         IN  IF has_position(eng.positions, pid) /\ eng.positions[pid].status = "OPEN"
             THEN LET position == update_position_price(eng.positions[pid], current_price)
                  IN  update_positions_and_trades(
                          [eng EXCEPT !.positions[pid] = position,
                                      !.current_trades[k] =
                                          update_trade(trade, position, current_price)],
                          k + 1, current_price)
             ELSE update_positions_and_trades(eng, k + 1, current_price)

TradeIndex(trades, position_id) ==
    IF \E k \in 1..Len(trades) : trades[k].position_id = position_id
    THEN CHOOSE k \in 1..Len(trades) : trades[k].position_id = position_id
    ELSE 0

\* Mutant: del self._current_trades[position_id] is missing.
DropAt_kept(s, k) == s

\* del self._current_trades[position_id]
DropAt(s, k) == SubSeq(s, 1, k - 1) \o SubSeq(s, k + 1, Len(s))

\* Mutant: the exit fee always at the taker rate of a Market exit.
close_trade_taker_exit(trade, realized_pnl, close_price, close_order_id, now) ==
    LET exit_fee == calculate_order_fee("MARKET", trade.entry_quantity, close_price)
        total_fees == trade.total_fees + exit_fee
    IN  [trade EXCEPT !.exit_price = close_price,
                      !.exit_time = now,
                      !.exit_order_id = close_order_id,
                      !.status = "CLOSED",
                      !.total_fees = total_fees,
                      !.realized_pnl = realized_pnl - total_fees]

close_trade(trade, realized_pnl, close_price, close_order_id, now) ==
    LET exit_fee == calculate_order_fee(trade.entry_order_type,
                                        trade.entry_quantity, close_price)
        total_fees == trade.total_fees + exit_fee
    IN  [trade EXCEPT !.exit_price = close_price,
                      !.exit_time = now,
                      !.exit_order_id = close_order_id,
                      !.status = "CLOSED",
                      !.total_fees = total_fees,
                      !.realized_pnl = realized_pnl - total_fees]

\* Mutant: the trade is completed with its status alone changed.
close_position_status_only(eng, position_id, close_price, close_order_id, now) ==
    IF ~has_position(eng.positions, position_id)
       \/ eng.positions[position_id].status # "OPEN"
    THEN eng
    ELSE LET res == close_position_full(eng.positions[position_id], close_price)
             realized_pnl == res[1]
             k == TradeIndex(eng.current_trades, position_id)
             eng1 == [eng EXCEPT !.positions[position_id] = res[2],
                                 !.account.total_pnl = @ + realized_pnl]
         IN  IF k = 0 THEN eng1
             ELSE [eng1 EXCEPT
                     !.completed_trades =
                         Append(@, [eng.current_trades[k] EXCEPT !.status = "CLOSED"]),
                     !.current_trades = DropAt(@, k)]

close_position(eng, position_id, close_price, close_order_id, now) ==
    IF ~has_position(eng.positions, position_id)
       \/ eng.positions[position_id].status # "OPEN"
    THEN eng
    ELSE LET res == close_position_full(eng.positions[position_id], close_price)
             realized_pnl == res[1]
             k == TradeIndex(eng.current_trades, position_id)
             eng1 == [eng EXCEPT !.positions[position_id] = res[2],
                                 !.account.total_pnl = @ + realized_pnl]
         IN  IF k = 0 THEN eng1
             ELSE [eng1 EXCEPT
                     !.completed_trades =
                         Append(@, close_trade(eng.current_trades[k], realized_pnl,
                                               close_price, close_order_id, now)),
                     !.current_trades = DropAt(@, k)]

\* The final loop of run_backtest over remaining_positions.
RECURSIVE close_remaining(_, _, _, _)
close_remaining(eng, remaining_positions, final_price, now) ==
    IF remaining_positions = <<>> THEN eng
    ELSE close_remaining(
             close_position(eng, Head(remaining_positions), final_price,
                            "final_close", now),
             Tail(remaining_positions), final_price, now)

Engine == [positions |-> positions, current_trades |-> current_trades,
           completed_trades |-> completed_trades, account |-> account]

NoCall == [op |-> "none", arg |-> 0, result |-> FALSE, executed |-> <<>>]

\* ============================================================ data pipeline
\* Times are epoch milliseconds.  A kline row keeps the columns open_time,
\* open, high, low, close, volume, close_time and number_of_trades; the other
\* four columns are summed exactly as volume is.  Prices and volumes are whole
\* numbers, on which float() and float addition are exact.
MinuteMs == 60000
Minutes == 0..(MaxMinute - 1)

\* SUPPORTED_INTERVALS and INTERVAL_MINUTES, the first three intervals
SUPPORTED_INTERVALS == <<"1m", "3m", "5m">>
INTERVAL_MINUTES == [i \in {"1m", "3m", "5m"} |->
                        IF i = "1m" THEN 1 ELSE IF i = "3m" THEN 3 ELSE 5]

\* A 1m row as the venue and the CSV file give it: the numeric fields are
\* text until float() and int() parse them.
Kline(open_time, open, high, low, close, volume, number_of_trades) ==
    [open_time |-> open_time, open |-> open, high |-> high, low |-> low,
     close |-> close, volume |-> volume,
     close_time |-> open_time + MinuteMs - 1,
     number_of_trades |-> number_of_trades, parsed |-> FALSE]

\* _get_interval_start
get_interval_start(timestamp_ms, interval_minutes) ==
    LET timestamp_sec == timestamp_ms \div 1000
        interval_sec == interval_minutes * 60
        interval_start_sec == (timestamp_sec \div interval_sec) * interval_sec
    IN  interval_start_sec * 1000

\* list.sort(key=open_time): a stable sort
RECURSIVE InsertSorted(_, _)
InsertSorted(sorted, row) ==
    IF sorted = <<>> THEN <<row>>
    ELSE IF sorted[Len(sorted)].open_time <= row.open_time
    THEN Append(sorted, row)
    ELSE Append(InsertSorted(SubSeq(sorted, 1, Len(sorted) - 1), row),
                sorted[Len(sorted)])

RECURSIVE SortByOpenTime(_)
SortByOpenTime(group) ==
    IF group = <<>> THEN <<>>
    ELSE InsertSorted(SortByOpenTime(SubSeq(group, 1, Len(group) - 1)),
                      group[Len(group)])

RECURSIVE SumOf(_, _)
SumOf(group, field) ==
    IF group = <<>> THEN 0
    ELSE group[1][field] + SumOf(Tail(group), field)

MaxOf(group, field) ==
    CHOOSE x \in { group[k][field] : k \in 1..Len(group) } :
        \A k \in 1..Len(group) : group[k][field] <= x

MinOf(group, field) ==
    CHOOSE x \in { group[k][field] : k \in 1..Len(group) } :
        \A k \in 1..Len(group) : group[k][field] >= x

\* Mutant: the aggregated row closes at the first candle's close.
aggregate_group_first_close(group) ==
    LET sorted == SortByOpenTime(group)
        first_candle == sorted[1]
        last_candle == sorted[Len(sorted)]
    IN  [open_time |-> first_candle.open_time,
         open |-> first_candle.open,
         high |-> MaxOf(sorted, "high"),
         low |-> MinOf(sorted, "low"),
         close |-> first_candle.close,
         volume |-> SumOf(sorted, "volume"),
         close_time |-> last_candle.close_time,
         number_of_trades |-> SumOf(sorted, "number_of_trades"),
         parsed |-> TRUE]

\* _aggregate_group on a non-empty group
aggregate_group(group) ==
    LET sorted == SortByOpenTime(group)
        first_candle == sorted[1]
        last_candle == sorted[Len(sorted)]
    IN  [open_time |-> first_candle.open_time,
         open |-> first_candle.open,
         high |-> MaxOf(sorted, "high"),
         low |-> MinOf(sorted, "low"),
         close |-> last_candle.close,
         volume |-> SumOf(sorted, "volume"),
         close_time |-> last_candle.close_time,
         number_of_trades |-> SumOf(sorted, "number_of_trades"),
         parsed |-> TRUE]

\* The loop of aggregate_to_interval from row k on.
RECURSIVE aggregate_loop(_, _, _, _, _, _)
aggregate_loop(data_1m, k, target_minutes, current_group, current_open_time, aggregated_data) ==
    IF k > Len(data_1m)
    THEN IF current_group # <<>>
         THEN Append(aggregated_data, aggregate_group(current_group))
         ELSE aggregated_data
    ELSE LET row == data_1m[k]
             interval_start == get_interval_start(row.open_time, target_minutes)
         IN  IF current_open_time = NoTime \/ interval_start # current_open_time
             THEN aggregate_loop(data_1m, k + 1, target_minutes, <<row>>,
                      interval_start,
                      IF current_group # <<>>
                      THEN Append(aggregated_data, aggregate_group(current_group))
                      ELSE aggregated_data)
             ELSE aggregate_loop(data_1m, k + 1, target_minutes,
                      Append(current_group, row), current_open_time,
                      aggregated_data)

\* Mutant: no early return for the 1m interval.
aggregate_to_interval_no_identity(data_1m, target_interval) ==
    aggregate_loop(data_1m, 1, INTERVAL_MINUTES[target_interval], <<>>,
                   NoTime, <<>>)

aggregate_to_interval(data_1m, target_interval) ==
    IF target_interval = "1m" THEN data_1m
    ELSE aggregate_loop(data_1m, 1, INTERVAL_MINUTES[target_interval], <<>>,
                        NoTime, <<>>)

\* ------------------------------------------------------------- the venue
\* The 1m candle the venue holds for open minute m.
VenueKline(m) ==
    Kline(m * MinuteMs, 2, 3 + (m % 2), 1 + ((m \div 2) % 2), 2 + (m % 2),
          1 + (m % MaxVolume), 1)

\* The klines endpoint with limit and endTime: the latest `limit' candles
\* whose open_time <= end_time, in ascending order.
RECURSIVE LatestKlines(_, _, _)
LatestKlines(held, end_time, limit) ==
    LET upto == { m \in held : m * MinuteMs <= end_time }
    IN  IF limit = 0 \/ upto = {} THEN <<>>
        ELSE LET m == CHOOSE x \in upto : \A y \in upto : y <= x
             IN  Append(LatestKlines(held \ {m}, end_time, limit - 1),
                        VenueKline(m))

Reverse(rows) == [k \in 1..Len(rows) |-> rows[Len(rows) + 1 - k]]

\* The file fetch_historical_data writes for the candles the venue holds:
\* every batch reversed, the batches from the newest to the oldest.
HistoricalFile(held) == Reverse(LatestKlines(held, MaxMinute * MinuteMs, MaxMinute))

\* ----------------------------------------------------------- table inserts
\* INSERT ... ON CONFLICT (open_time) DO NOTHING, row by row; the columns are
\* typed, so a stored row holds numbers.
\* Mutant: ON CONFLICT (open_time) DO UPDATE, the last writer wins.
insert_rows_upsert(table, data) ==
    { r \in table : \A k \in 1..Len(data) : data[k].open_time # r.open_time }
    \cup { [data[k] EXCEPT !.parsed = TRUE] : k \in
             { k \in 1..Len(data) :
                 \A j \in (k + 1)..Len(data) : data[j].open_time # data[k].open_time } }

RECURSIVE insert_rows(_, _)
insert_rows(table, data) ==
    IF data = <<>> THEN table
    ELSE insert_rows(
             IF \E r \in table : r.open_time = data[1].open_time
             THEN table
             ELSE table \cup {[data[1] EXCEPT !.parsed = TRUE]},
             Tail(data))

\* The rows of the CSV file as process_csv_file reads them: int() and float()
\* of every field.
ParseRows(rows) == [k \in 1..Len(rows) |-> [rows[k] EXCEPT !.parsed = TRUE]]

\* The loop over SUPPORTED_INTERVALS of update_symbol: aggregate the 1m rows
\* to each interval and insert the result. An insert that fails (the
\* intervals in `failing') is rolled back and the loop goes on.
RECURSIVE insert_all_intervals(_, _, _, _)
insert_all_intervals(tabs, data_1m, k, failing) ==
    IF k > Len(SUPPORTED_INTERVALS) THEN tabs
    ELSE LET interval == SUPPORTED_INTERVALS[k]
             aggregated_data == aggregate_to_interval(data_1m, interval)
         IN  insert_all_intervals(
                 IF interval \in failing THEN tabs
                 ELSE [tabs EXCEPT ![interval] = insert_rows(@, aggregated_data)],
                 data_1m, k + 1, failing)

\* The loop over SUPPORTED_INTERVALS of process_csv_file: every insert commits
\* by itself; the first insert that fails is rolled back and ends the loop.
RECURSIVE process_intervals(_, _, _, _)
process_intervals(tabs, data_1m, k, failing) ==
    IF k > Len(SUPPORTED_INTERVALS) THEN tabs
    ELSE LET interval == SUPPORTED_INTERVALS[k]
             aggregated_data == aggregate_to_interval(data_1m, interval)
         IN  IF interval \in failing THEN tabs
             ELSE process_intervals(
                      [tabs EXCEPT ![interval] = insert_rows(@, aggregated_data)],
                      data_1m, k + 1, failing)

\* get_latest_timestamp: MAX(open_time), None for an empty table or a maximum
\* of 0
get_latest_timestamp(table) ==
    IF table = {} THEN NoTime
    ELSE LET latest == CHOOSE t \in { r.open_time : r \in table } :
                           \A r \in table : r.open_time <= t
         IN  IF latest = 0 THEN NoTime ELSE latest

NoUpdate == [pc |-> "idle", start_time |-> 0, end_time |-> 0,
             all_data |-> <<>>, requests |-> 0]
NoAggregation == [data_1m |-> <<>>, interval |-> "1m", result |-> <<>>,
                  again |-> <<>>, done |-> FALSE]
NoFetch == [pc |-> "idle", end_time |-> 0, attempt |-> 0, requests |-> 0,
            failures |-> 0, sleeps |-> 0, ends |-> <<>>, batches |-> <<>>, file |-> <<>>,
            returned |-> FALSE]
NoSymbolRun == [pipeline |-> "none", events |-> <<>>, results |-> <<>>]
NoAnalysis == [done |-> FALSE]
NoTables == [i \in DOMAIN INTERVAL_MINUTES |-> {}]
NoReport == [op |-> "none", data_1m |-> <<>>, before |-> NoTables,
             failing |-> {}, returned |-> TRUE, calls |-> 0]

InitData ==
    /\ wall = 0
    /\ venue = {}
    /\ tables = NoTables
    /\ upd = NoUpdate
    /\ agg = NoAggregation
    /\ report = NoReport
    /\ fetch = NoFetch
    /\ symbol_run = NoSymbolRun
    /\ analysis = NoAnalysis

\* A freshly constructed engine whose wall clock reads `now'.
FreshRun(now) ==
    [orders |-> <<>>, pending |-> <<>>, positions |-> <<>>,
     current_trades |-> <<>>, completed_trades |-> <<>>,
     account |-> create_account(InitialBalance), clock |-> now]

\* ------------------------------------------------------------ run_backtest
InitRun ==
    /\ candles = <<>>
    /\ idx = 1
    /\ pc = "mark"
    /\ orders = <<>>
    /\ pending = <<>>
    /\ positions = <<>>
    /\ current_trades = <<>>
    /\ completed_trades = <<>>
    /\ account = create_account(InitialBalance)
    /\ fills = <<>>
    /\ placed = <<>>
    /\ steps = <<>>
    /\ last = NoCall
    /\ clock = 0

InitEngine == InitRun /\ run2 = FreshRun(0)

Init == InitEngine /\ InitData

\* The loop reads candle idx of the input list (its close is an input), then
\* (1) mark-to-market
MarkStep ==
    /\ pc = "mark"
    /\ \E close \in Prices :
          /\ candles' = Append(candles, close)
          /\ LET current_price == close
                 eng == update_positions_and_trades(Engine, 1, current_price)
             IN  /\ positions' = eng.positions
                 /\ current_trades' = eng.current_trades
    /\ pc' = "match"
    /\ steps' = Append(steps, <<idx, "mark">>)
    /\ clock' = clock + 1
    /\ UNCHANGED <<idx, orders, pending, completed_trades, account,
                   fills, placed, last>>

\* (2) process_orders and the handling of the executed orders
MatchStep ==
    /\ pc = "match"
    /\ LET current_price == candles[idx]
           res == process_orders(orders, pending, current_price, clock)
           eng == handle_executed(Engine, res.orders, res.executed,
                                  current_price, clock)
       IN  /\ orders' = res.orders
           /\ pending' = res.pending
           /\ positions' = eng.positions
           /\ current_trades' = eng.current_trades
           /\ account' = eng.account
           /\ fills' = fills \o [k \in 1..Len(res.executed) |->
                                    [order |-> res.executed[k],
                                     price |-> current_price,
                                     candle |-> idx]]
    /\ pc' = "strategy"
    /\ steps' = Append(steps, <<idx, "match">>)
    /\ clock' = clock + 1
    /\ UNCHANGED <<candles, idx, completed_trades, placed, last>>

\* Mutant: the loop steps over every other candle.
AdvanceSkip ==
    /\ idx' = IF idx < NumCandles THEN Min2(idx + 2, NumCandles) ELSE idx
    /\ pc' = IF idx < NumCandles THEN "mark" ELSE "final"

\* The loop header: the next candle, or the code after the loop.
Advance ==
    /\ idx' = IF idx < NumCandles THEN idx + 1 ELSE idx
    /\ pc' = IF idx < NumCandles THEN "mark" ELSE "final"

\* The orders one on_candle call may return.
NewOrderLists == UNION { [1..n -> OrderInputs] : n \in 0..MaxPerCall }

RECURSIVE place_all(_, _, _)
place_all(st, new_orders, now) ==
    IF new_orders = <<>> THEN st
    ELSE LET o == Head(new_orders)
             r == Len(st.orders) + 1
         IN  place_all(
                 [orders |-> Append(st.orders,
                                 NewOrder(r, o.side, o.quantity, o.order_type,
                                          o.price, o.limit_price)),
                  pending |-> place_order(st.pending, r)],
                 Tail(new_orders), now)

\* (3) the strategy callback returns new_orders, which are placed
StrategyReturnsStep ==
    /\ pc = "strategy"
    /\ \E new_orders \in NewOrderLists :
          /\ Len(orders) + Len(new_orders) <= MaxOrders
          /\ LET st == place_all([orders |-> orders, pending |-> pending],
                                 new_orders, clock)
             IN  /\ orders' = st.orders
                 /\ pending' = st.pending
          /\ placed' = placed \o [k \in 1..Len(new_orders) |-> idx]
    /\ Advance
    /\ steps' = Append(steps, <<idx, "strategy">>)
    /\ clock' = clock + 1
    /\ UNCHANGED <<candles, positions, current_trades, completed_trades,
                   account, fills, last>>

\* Mutant: the exception ends the loop.
StrategyRaisesBreaks ==
    /\ pc = "strategy"
    /\ pc' = "final"
    /\ idx' = idx
    /\ steps' = Append(steps, <<idx, "raise">>)
    /\ clock' = clock + 1
    /\ UNCHANGED <<candles, orders, pending, positions, current_trades,
                   completed_trades, account, fills, placed, last>>

\* (3) the strategy callback raises: caught, the loop continues
StrategyRaisesStep ==
    /\ pc = "strategy"
    /\ Advance
    /\ steps' = Append(steps, <<idx, "raise">>)
    /\ clock' = clock + 1
    /\ UNCHANGED <<candles, orders, pending, positions, current_trades,
                   completed_trades, account, fills, placed, last>>

\* After the loop: close the remaining positions at the final price.
FinalCloseStep ==
    /\ pc = "final"
    /\ LET final_price == candles[Len(candles)]
           remaining_positions ==
               [k \in 1..Len(current_trades) |-> current_trades[k].position_id]
           eng == close_remaining(Engine, remaining_positions, final_price, clock)
       IN  /\ positions' = eng.positions
           /\ current_trades' = eng.current_trades
           /\ completed_trades' = eng.completed_trades
           /\ account' = eng.account
    /\ pc' = "done"
    /\ steps' = Append(steps, <<idx, "final">>)
    /\ clock' = clock + 1
    /\ UNCHANGED <<candles, idx, orders, pending, fills, placed, last>>

\* run_backtest, one run
Mark == MarkStep /\ UNCHANGED <<run2, data_vars>>
Match == MatchStep /\ UNCHANGED <<run2, data_vars>>
StrategyReturns == StrategyReturnsStep /\ UNCHANGED <<run2, data_vars>>
StrategyRaises == StrategyRaisesStep /\ UNCHANGED <<run2, data_vars>>
FinalClose == FinalCloseStep /\ UNCHANGED <<run2, data_vars>>

Next == Mark \/ Match \/ StrategyReturns \/ StrategyRaises \/ FinalClose

Spec == Init /\ [][Next]_vars

\* ------------------------------ two runs of run_backtest on the same inputs
\* The second run executes the same statements on its own engine; it reads
\* its own wall clock, which starts anywhere and never runs backwards.
RunEngine(r) ==
    [positions |-> r.positions, current_trades |-> r.current_trades,
     completed_trades |-> r.completed_trades, account |-> r.account]

RunMark(r, current_price) ==
    LET eng == update_positions_and_trades(RunEngine(r), 1, current_price)
    IN  [r EXCEPT !.positions = eng.positions,
                  !.current_trades = eng.current_trades]

RunMatch(r, current_price) ==
    LET res == process_orders(r.orders, r.pending, current_price, r.clock)
        eng == handle_executed(RunEngine(r), res.orders, res.executed,
                               current_price, r.clock)
    IN  [r EXCEPT !.orders = res.orders,
                  !.pending = res.pending,
                  !.positions = eng.positions,
                  !.current_trades = eng.current_trades,
                  !.account = eng.account]

RunStrategy(r, new_orders) ==
    LET st == place_all([orders |-> r.orders, pending |-> r.pending],
                        new_orders, r.clock)
    IN  [r EXCEPT !.orders = st.orders, !.pending = st.pending]

RunFinalClose(r, final_price) ==
    LET remaining_positions ==
            [k \in 1..Len(r.current_trades) |-> r.current_trades[k].position_id]
        eng == close_remaining(RunEngine(r), remaining_positions, final_price,
                               r.clock)
    IN  [r EXCEPT !.positions = eng.positions,
                  !.current_trades = eng.current_trades,
                  !.completed_trades = eng.completed_trades,
                  !.account = eng.account]

\* The readings the second run's clock may give at its next step, while the
\* first run's clock moves from clock to clock + 1.
WallClock(r) == (r.clock + 1)..(clock + 1 + MaxSkew)

InitTwoRuns ==
    /\ InitRun
    /\ \E now \in 0..MaxSkew : run2 = FreshRun(now)
    /\ InitData

Mark2 ==
    /\ MarkStep
    /\ \E t \in WallClock(run2) :
          run2' = [RunMark(run2, candles'[idx]) EXCEPT !.clock = t]
    /\ UNCHANGED data_vars

Match2 ==
    /\ MatchStep
    /\ \E t \in WallClock(run2) :
          run2' = [RunMatch(run2, candles[idx]) EXCEPT !.clock = t]
    /\ UNCHANGED data_vars

StrategyReturns2 ==
    /\ StrategyReturnsStep
    /\ \E t \in WallClock(run2) :
          run2' = [RunStrategy(run2, SubSeq(orders', Len(orders) + 1, Len(orders')))
                      EXCEPT !.clock = t]
    /\ UNCHANGED data_vars

StrategyRaises2 ==
    /\ StrategyRaisesStep
    /\ \E t \in WallClock(run2) : run2' = [run2 EXCEPT !.clock = t]
    /\ UNCHANGED data_vars

FinalClose2 ==
    /\ FinalCloseStep
    /\ \E t \in WallClock(run2) :
          run2' = [RunFinalClose(run2, candles[Len(candles)]) EXCEPT !.clock = t]
    /\ UNCHANGED data_vars

NextTwoRuns == Mark2 \/ Match2 \/ StrategyReturns2 \/ StrategyRaises2 \/ FinalClose2

SpecTwoRuns == InitTwoRuns /\ [][NextTwoRuns]_vars

\* ------------------------------------- reset_engine between two backtests
\* reset_engine: a new account, no live and no completed trade, and the
\* counters of the id generator cleared.  The AccountManager keeps positions
\* by account id and the new account has a new id, so the engine sees no
\* position, and position ids start again at 1.  The OrderManager is not
\* touched: st.orders and st.pending stay.  (The TradeFactory keeps its own
\* counter, which is not reset either: trade ids go on counting in the
\* source, while the model numbers the trades of each run from 1.)
reset_engine(st) ==
    [st EXCEPT !.account = create_account(InitialBalance),
               !.positions = <<>>,
               !.current_trades = <<>>,
               !.completed_trades = <<>>]

\* The first backtest on the engine
FirstRun ==
    /\ last.op = "none"
    /\ Next
    /\ Len(orders') <= MaxResetOrders

\* reset_engine() after the first backtest; a second engine is constructed
\* to run the same inputs.  last.executed keeps the candles of the backtest.
ResetEngine ==
    /\ last.op = "none"
    /\ pc = "done"
    /\ LET st == reset_engine([orders |-> orders, pending |-> pending,
                               positions |-> positions,
                               current_trades |-> current_trades,
                               completed_trades |-> completed_trades,
                               account |-> account])
       IN  /\ orders' = st.orders
           /\ pending' = st.pending
           /\ positions' = st.positions
           /\ current_trades' = st.current_trades
           /\ completed_trades' = st.completed_trades
           /\ account' = st.account
    /\ run2' = FreshRun(clock)
    /\ last' = [op |-> "reset", arg |-> 0, result |-> TRUE, executed |-> candles]
    /\ candles' = <<>>
    /\ idx' = 1
    /\ pc' = "mark"
    /\ fills' = <<>>
    /\ placed' = <<>>
    /\ steps' = <<>>
    /\ UNCHANGED <<clock, data_vars>>

\* run_backtest with the same candles and the same strategy on the engine
\* that was reset and on the new engine, statement by statement
RunAfterReset ==
    /\ last.op = "reset"
    /\ \/ /\ MarkStep
          /\ candles' = SubSeq(last.executed, 1, idx)
          /\ run2' = [RunMark(run2, candles'[idx]) EXCEPT !.clock = clock + 1]
       \/ /\ MatchStep
          /\ run2' = [RunMatch(run2, candles[idx]) EXCEPT !.clock = clock + 1]
       \/ /\ StrategyReturnsStep
          /\ Len(orders') <= MaxResetOrders
          /\ run2' = [RunStrategy(run2, SubSeq(orders', Len(orders) + 1, Len(orders')))
                         EXCEPT !.clock = clock + 1]
       \/ /\ StrategyRaisesStep
          /\ run2' = [run2 EXCEPT !.clock = clock + 1]
       \/ /\ FinalCloseStep
          /\ run2' = [RunFinalClose(run2, candles[Len(candles)])
                         EXCEPT !.clock = clock + 1]
    /\ UNCHANGED data_vars

NextReset == FirstRun \/ ResetEngine \/ RunAfterReset

SpecReset == Init /\ [][NextReset]_vars

\* ------------------------------------------- OrderManager called directly
InitOM ==
    /\ candles = <<>>
    /\ idx = 0
    /\ pc = "om"
    /\ orders = <<>>
    /\ pending = <<>>
    /\ positions = <<>>
    /\ current_trades = <<>>
    /\ completed_trades = <<>>
    /\ account = create_account(InitialBalance)
    /\ fills = <<>>
    /\ placed = <<>>
    /\ steps = <<>>
    /\ last = NoCall
    /\ clock = 0
    /\ run2 = FreshRun(0)
    /\ InitData

OMFrame ==
    /\ pc = "om"
    /\ clock < MaxCalls
    /\ clock' = clock + 1
    /\ UNCHANGED <<candles, idx, pc, positions, current_trades,
                   completed_trades, account, steps, run2, data_vars>>

\* place_order(order) with a freshly created order
OMPlace ==
    /\ OMFrame
    /\ Len(orders) < MaxOrders
    /\ \E o \in OrderInputs :
          LET st == place_all([orders |-> orders, pending |-> pending], <<o>>, clock)
          IN  /\ orders' = st.orders
              /\ pending' = st.pending
    /\ placed' = Append(placed, 0)
    /\ last' = [op |-> "place", arg |-> Len(orders) + 1, result |-> TRUE,
                executed |-> <<>>]
    /\ UNCHANGED fills

\* cancel_order(order_id), the id of some order or an unknown id
OMCancel ==
    /\ OMFrame
    /\ \E order_id \in 1..(Len(orders) + 1) :
          /\ orders' = cancel_order(orders, pending, order_id)
          /\ last' = [op |-> "cancel", arg |-> order_id,
                      result |-> cancel_target(orders, pending, order_id) # 0,
                      executed |-> <<>>]
    /\ UNCHANGED <<pending, fills, placed>>

\* process_orders(current_price, account)
OMProcess ==
    /\ OMFrame
    /\ \E current_price \in Prices :
          LET res == process_orders(orders, pending, current_price, clock)
          IN  /\ orders' = res.orders
              /\ pending' = res.pending
              /\ fills' = fills \o [k \in 1..Len(res.executed) |->
                                       [order |-> res.executed[k],
                                        price |-> current_price,
                                        candle |-> 0]]
              /\ last' = [op |-> "process", arg |-> current_price,
                          result |-> TRUE, executed |-> res.executed]
    /\ UNCHANGED placed

NextOM == OMPlace \/ OMCancel \/ OMProcess

SpecOM == InitOM /\ [][NextOM]_vars

\* ---------------------------------------- PositionManager called directly
PMSides == {"LONG", "SHORT"}
PMPrices == { PriceTick * k : k \in 1..MaxPrice }
PMDeltas == (0 - MaxQty)..MaxQty

InitPM ==
    /\ candles = <<>>
    /\ idx = 0
    /\ pc = "pm"
    /\ orders = <<>>
    /\ pending = <<>>
    /\ positions = <<>>
    /\ current_trades = <<>>
    /\ completed_trades = <<>>
    /\ account = create_account(InitialBalance)
    /\ fills = <<>>
    /\ placed = <<>>
    /\ steps = <<>>
    /\ last = NoCall
    /\ clock = 0
    /\ run2 = FreshRun(0)
    /\ InitData

PMFrame ==
    /\ pc = "pm"
    /\ clock < MaxCalls
    /\ clock' = clock + 1
    /\ UNCHANGED <<candles, idx, pc, orders, pending, current_trades,
                   completed_trades, account, fills, placed, steps, run2, data_vars>>

\* create_position(params), sized as _create_position_from_order sizes it
PMCreate ==
    /\ PMFrame
    /\ Len(positions) < MaxPositions
    /\ \E side \in PMSides, quantity \in 0..MaxQty, entry_price \in PMPrices :
          /\ positions' = Append(positions,
                 create_position(side,
                                 IF side = "LONG" THEN quantity ELSE 0 - quantity,
                                 entry_price, Leverage, Len(positions) + 1, clock))
          /\ last' = [op |-> "create", arg |-> Len(positions) + 1,
                      result |-> TRUE, executed |-> <<>>]

\* update_position_price(position, current_price)
PMUpdatePrice ==
    /\ PMFrame
    /\ \E k \in 1..Len(positions), current_price \in PMPrices :
          /\ positions' = [positions EXCEPT
                              ![k] = update_position_price(@, current_price)]
          /\ last' = [op |-> "update_price", arg |-> k, result |-> TRUE,
                      executed |-> <<>>]

\* add_to_position(position, additional_size, additional_price)
PMAdd ==
    /\ PMFrame
    /\ \E k \in 1..Len(positions), additional_size \in PMDeltas,
          additional_price \in PMPrices :
          LET res == add_to_position(positions[k], additional_size, additional_price)
          IN  /\ positions' = [positions EXCEPT ![k] = res.position]
              /\ last' = [op |-> "add", arg |-> k, result |-> ~res.raised,
                          executed |-> <<additional_size, additional_price>>]

\* close_position_partial(position, close_size, close_price)
PMClosePartial ==
    /\ PMFrame
    /\ \E k \in 1..Len(positions), close_size \in PMDeltas, close_price \in PMPrices :
          LET res == close_position_partial(positions[k], close_size, close_price)
          IN  /\ positions' = [positions EXCEPT ![k] = res.position]
              /\ last' = [op |-> "close_partial", arg |-> k, result |-> ~res.raised,
                          executed |-> <<close_size, close_price>>]

\* close_position_full(position, close_price)
PMCloseFull ==
    /\ PMFrame
    /\ \E k \in 1..Len(positions), close_price \in PMPrices :
          LET res == close_position_full_checked(positions[k], close_price)
          IN  /\ positions' = [positions EXCEPT ![k] = res.position]
              /\ last' = [op |-> "close_full", arg |-> k, result |-> ~res.raised,
                          executed |-> <<close_price>>]

NextPM == PMCreate \/ PMUpdatePrice \/ PMAdd \/ PMClosePartial \/ PMCloseFull

SpecPM == InitPM /\ [][NextPM]_vars

\* --------------------------------------- ingestion and incremental update
InitDB == InitEngine /\ InitData

\* A minute passes; the venue has a candle for it, or a gap.
VenueTick ==
    /\ wall < MaxMinute
    /\ wall' = wall + 1
    /\ \E traded \in BOOLEAN :
          venue' = IF traded THEN venue \cup {wall} ELSE venue
    /\ UNCHANGED <<tables, upd, agg, report, fetch, symbol_run, analysis, engine_vars>>

\* The inserts that fail in one call: none, or that of one interval
Failings == {{}} \cup { {i} : i \in DOMAIN INTERVAL_MINUTES }

\* process_csv_file on the 1m file of the symbol
IngestCsv ==
    /\ upd.pc = "idle"
    /\ report.calls < MaxRuns
    /\ \E failing \in Failings :
          LET data_1m == ParseRows(HistoricalFile(venue))
          IN  /\ data_1m # <<>>
              /\ tables' = process_intervals(tables, data_1m, 1, failing)
              /\ report' = [op |-> "ingest", data_1m |-> data_1m,
                            before |-> tables, failing |-> failing,
                            returned |-> (failing = {}),
                            calls |-> report.calls + 1]
    /\ UNCHANGED <<wall, venue, upd, agg, fetch, symbol_run, analysis, engine_vars>>

\* update_symbol from line 343 on: nothing to do for no new rows, else
\* aggregate and insert for every interval
UpdateInsert(new_1m_data, failing) ==
    /\ upd' = NoUpdate
    /\ tables' = IF new_1m_data = <<>> THEN tables
                 ELSE insert_all_intervals(tables, new_1m_data, 1, failing)
    /\ report' = [op |-> "update", data_1m |-> new_1m_data, before |-> tables,
                  failing |-> IF new_1m_data = <<>> THEN {} ELSE failing,
                  returned |-> (new_1m_data = <<>> \/ failing = {}),
                  calls |-> report.calls + 1]

\* update_symbol up to the loop of fetch_new_data
UpdateStart ==
    /\ upd.pc = "idle"
    /\ report.calls < MaxRuns
    /\ LET latest_1m == get_latest_timestamp(tables["1m"])
           start_time == latest_1m + 1
           end_time == wall * MinuteMs
       IN  IF latest_1m = NoTime \/ ~(start_time < end_time)
           THEN UpdateInsert(<<>>, {})
           ELSE /\ upd' = [pc |-> "fetch", start_time |-> start_time,
                           end_time |-> end_time, all_data |-> <<>>,
                           requests |-> 0]
                /\ UNCHANGED <<tables, report>>
    /\ UNCHANGED <<wall, venue, agg, fetch, symbol_run, analysis, engine_vars>>

\* One iteration of the loop of fetch_new_data; when the loop ends, the rest
\* of update_symbol.
UpdateRequest ==
    /\ upd.pc = "fetch"
    /\ \E answered \in BOOLEAN, failing \in Failings :
          LET batch_end_time ==
                  Min2(upd.start_time + (ApiLimit * INTERVAL_MINUTES["1m"] * 60 * 1000),
                       upd.end_time)
              data == IF answered THEN LatestKlines(venue, batch_end_time, ApiLimit)
                      ELSE <<>>
              new_data == SelectSeq(data, LAMBDA row : row.open_time > upd.start_time)
              all_data == upd.all_data \o new_data
              start_time == data[1].open_time + 1
          IN  IF data = <<>> \/ new_data = <<>>
              THEN UpdateInsert(upd.all_data, failing)
              ELSE IF start_time < upd.end_time
              THEN /\ upd.requests < MaxRequests
                   /\ failing = {}
                   /\ upd' = [upd EXCEPT !.start_time = start_time,
                                         !.all_data = all_data,
                                         !.requests = @ + 1]
                   /\ UNCHANGED <<tables, report>>
              ELSE UpdateInsert(all_data, failing)
    /\ UNCHANGED <<wall, venue, agg, fetch, symbol_run, analysis, engine_vars>>

NextDB == VenueTick \/ IngestCsv \/ UpdateStart \/ UpdateRequest

SpecDB == InitDB /\ [][NextDB]_vars

\* ------------------------------------------------------- historical fetch
MAX_RETRIES == 5

\* fetch_historical_data for one symbol whose venue holds a finite history
InitFetch ==
    /\ InitEngine
    /\ wall = MaxMinute
    /\ venue \in SUBSET Minutes
    /\ tables = NoTables
    /\ upd = NoUpdate
    /\ agg = NoAggregation
    /\ report = NoReport
    /\ fetch = NoFetch
    /\ symbol_run = NoSymbolRun
    /\ analysis = NoAnalysis

\* Mutant: the next request ends below the newest row of the batch.
next_end_time_newest(data) == data[Len(data)].open_time - 1

\* end_time = data[0][0] - 1
next_end_time(data) == data[1].open_time - 1

\* fetch_historical_data up to its first _fetch_klines call
FetchStart ==
    /\ fetch.pc = "idle"
    /\ fetch' = [NoFetch EXCEPT !.pc = "attempt", !.end_time = wall * MinuteMs,
                                !.attempt = 1, !.ends = <<wall * MinuteMs>>]
    /\ UNCHANGED <<wall, venue, tables, upd, agg, report, symbol_run, analysis, engine_vars>>

\* The rest of the loop body of fetch_historical_data once _fetch_klines has
\* returned `data', up to the next _fetch_klines call
FetchGot(data, call) ==
    IF data = <<>>
    THEN fetch' = [call EXCEPT !.pc = "done", !.returned = TRUE,
                               !.batches = Append(@, data)]
    ELSE fetch' = [call EXCEPT !.file = @ \o Reverse(data),
                               !.batches = Append(@, data),
                               !.end_time = next_end_time(data),
                               !.ends = Append(@, next_end_time(data)),
                               !.attempt = 1]

\* Mutant: the call sleeps after its last attempt as well.
retry_sleeps_always(attempt) == 1

\* if attempt < max_retries: time.sleep(retry_delay)
retry_sleeps(attempt) == IF attempt < MAX_RETRIES THEN 1 ELSE 0

\* One attempt of _fetch_klines: the request succeeds and the response is
\* returned, or it fails and the call sleeps and tries again, or, after the
\* last attempt, returns []. requests, failures and sleeps count those of
\* the current call.
FetchAttempt ==
    /\ fetch.pc = "attempt"
    /\ \E ok \in BOOLEAN :
          LET call == IF fetch.attempt = 1
                      THEN [fetch EXCEPT !.requests = 1, !.failures = 0,
                                         !.sleeps = 0]
                      ELSE [fetch EXCEPT !.requests = @ + 1]
              failed == [call EXCEPT !.failures = @ + 1,
                                     !.sleeps = @ + retry_sleeps(fetch.attempt)]
          IN  IF ok
              THEN FetchGot(LatestKlines(venue, fetch.end_time, ApiLimit), call)
              ELSE IF fetch.attempt < MAX_RETRIES
              THEN fetch' = [failed EXCEPT !.attempt = @ + 1]
              ELSE FetchGot(<<>>, failed)
    /\ UNCHANGED <<wall, venue, tables, upd, agg, report, symbol_run, analysis, engine_vars>>

NextFetch == FetchStart \/ FetchAttempt

SpecFetch == InitFetch /\ [][NextFetch]_vars

\* The loop is one thread that keeps running until it returns.
SpecFetchFair == SpecFetch /\ WF_vars(NextFetch)

\* ------------------------------------------------- pipelines over symbols
\* What happens while one symbol is processed: nothing ("ok"), a batch whose
\* retries are exhausted, the file cannot be opened or read, an insert
\* fails, the query for the latest timestamp fails.
Events(pipeline) ==
    IF pipeline = "fetch" THEN {"ok", "retries_exhausted", "file_error"}
    ELSE IF pipeline = "ingest" THEN {"ok", "insert_error", "file_error"}
    ELSE {"ok", "retries_exhausted", "insert_error", "query_error"}

\* fetch_historical_data: an exhausted _fetch_klines returns [], which ends
\* the loop like the end of the history; any exception gives False.
fetch_historical_data(event) == event # "file_error"

\* process_csv_file: False for a failed insert and for any exception
process_csv_file(event) == event \notin {"insert_error", "file_error"}

\* update_symbol: get_latest_timestamp turns a failed query into None and the
\* symbol is skipped with True; an exhausted batch ends fetch_new_data; only
\* a failed insert gives False.
update_symbol(event) == event # "insert_error"

InitList ==
    /\ InitEngine
    /\ wall = 0
    /\ venue = {}
    /\ tables = NoTables
    /\ upd = NoUpdate
    /\ agg = NoAggregation
    /\ report = NoReport
    /\ fetch = NoFetch
    /\ analysis = NoAnalysis
    /\ \E pipeline \in {"fetch", "ingest", "update"} :
          \E events \in [1..NumSymbols -> Events(pipeline)] :
             symbol_run = [pipeline |-> pipeline, events |-> events,
                           results |-> <<>>]

ListFrame ==
    /\ Len(symbol_run.results) < NumSymbols
    /\ UNCHANGED <<wall, venue, tables, upd, agg, report, fetch, analysis, engine_vars>>

NextEvent == symbol_run.events[Len(symbol_run.results) + 1]

\* One turn of the loop of fetch_multiple_symbols
FetchSymbol ==
    /\ ListFrame
    /\ symbol_run.pipeline = "fetch"
    /\ symbol_run' = [symbol_run EXCEPT
                         !.results = Append(@, fetch_historical_data(NextEvent))]

\* One turn of the loop over the files of initialize_database
IngestFile ==
    /\ ListFrame
    /\ symbol_run.pipeline = "ingest"
    /\ symbol_run' = [symbol_run EXCEPT
                         !.results = Append(@, process_csv_file(NextEvent))]

\* One turn of the loop of update_all_symbols
UpdateSymbol ==
    /\ ListFrame
    /\ symbol_run.pipeline = "update"
    /\ symbol_run' = [symbol_run EXCEPT
                         !.results = Append(@, update_symbol(NextEvent))]

NextList == FetchSymbol \/ IngestFile \/ UpdateSymbol

SpecList == InitList /\ [][NextList]_vars

\* ---------------------------------------------------------------- analysis
\* A quotient num / den of the metrics, den > 0, kept as the pair: two
\* quotients are equal or ordered as their cross products are.
Rat(num, den) == [num |-> num, den |-> den]
RatEq(a, b) == a.num * b.den = b.num * a.den
RatLeq(a, b) == a.num * b.den <= b.num * a.den
RatMax(a, b) == IF RatLeq(b, a) THEN a ELSE b

\* metrics.total_return: computed for a positive initial balance only, else
\* left at its default Decimal("0")
total_return(initial_balance, final_balance) ==
    IF initial_balance > 0
    THEN Rat((final_balance - initial_balance) * 100, initial_balance)
    ELSE Rat(0, 1)

\* Mutant: a trade that breaks even counts as won.
is_winning_trade_nonnegative(trade) == trade.realized_pnl >= 0

\* TradeAnalyzer.is_winning_trade
is_winning_trade(trade) == trade.realized_pnl > 0

CountOf(trades, Test(_)) ==
    Cardinality({ k \in 1..Len(trades) : Test(trades[k]) })

\* sum(t.realized_pnl for t in trades if ...): the gains for sign 1, the
\* losses for sign -1
RECURSIVE SumPnl(_, _)
SumPnl(trades, sign) ==
    IF trades = <<>> THEN 0
    ELSE (IF trades[1].realized_pnl * sign > 0 THEN trades[1].realized_pnl ELSE 0)
         + SumPnl(Tail(trades), sign)

\* calculate_win_rate
calculate_win_rate(trades) ==
    IF trades = <<>> THEN Rat(0, 1)
    ELSE Rat(CountOf(trades, is_winning_trade) * 100, Len(trades))

\* Mutant: the losses keep their sign.
calculate_profit_factor_signed(trades) ==
    LET gross_profit == SumPnl(trades, 1)
        gross_loss == SumPnl(trades, 0 - 1)
    IN  IF gross_loss = 0
        THEN IF gross_profit > 0 THEN Rat(999999, 1) ELSE Rat(0, 1)
        ELSE Rat(0 - gross_profit, 0 - gross_loss)

\* calculate_profit_factor
calculate_profit_factor(trades) ==
    LET gross_profit == SumPnl(trades, 1)
        gross_loss == Abs(SumPnl(trades, 0 - 1))
    IN  IF gross_loss = 0
        THEN IF gross_profit > 0 THEN Rat(999999, 1) ELSE Rat(0, 1)
        ELSE Rat(gross_profit, gross_loss)

\* Mutant: the running maximum is never raised.
running_maximum_stale(max_balance, current_balance) == max_balance

\* max_balance = max(max_balance, current_balance)
running_maximum(max_balance, current_balance) == Max2(max_balance, current_balance)

\* The loop of calculate_max_drawdown from trade k on
RECURSIVE max_drawdown_loop(_, _, _, _, _)
max_drawdown_loop(trades, k, max_balance, current_balance, max_dd) ==
    IF k > Len(trades) THEN max_dd
    ELSE IF trades[k].status = "CLOSED"
    THEN LET current == current_balance + trades[k].realized_pnl
             maximum == running_maximum(max_balance, current)
         IN  max_drawdown_loop(trades, k + 1, maximum, current,
                 IF maximum > 0
                 THEN RatMax(max_dd, Rat((maximum - current) * 100, maximum))
                 ELSE max_dd)
    ELSE max_drawdown_loop(trades, k + 1, max_balance, current_balance, max_dd)

\* calculate_max_drawdown
calculate_max_drawdown(trades, initial_balance) ==
    IF trades = <<>> THEN Rat(0, 1)
    ELSE max_drawdown_loop(trades, 1, initial_balance, initial_balance, Rat(0, 1))

\* analyze_backtest: the trade statistics and the three ratios
analyze_backtest(trades, initial_balance) ==
    LET closed_trades == SelectSeq(trades, LAMBDA t : t.status = "CLOSED")
        winning_trades == SelectSeq(closed_trades, is_winning_trade)
        losing_trades == SelectSeq(closed_trades, LAMBDA t : ~is_winning_trade(t))
    IN  [total_trades |-> Len(trades),
         closed_trades |-> Len(closed_trades),
         winning_trades |-> Len(winning_trades),
         losing_trades |-> Len(losing_trades),
         win_rate |-> calculate_win_rate(closed_trades),
         profit_factor |-> calculate_profit_factor(closed_trades),
         max_drawdown |-> calculate_max_drawdown(closed_trades, initial_balance)]

\* The trades of a result: open or closed, with a loss, nothing or a gain
AnalysedTrades ==
    [status : {"OPEN", "CLOSED"}, realized_pnl : (0 - MaxPnl)..MaxPnl]

RECURSIVE TradeListsOfLen(_)
TradeListsOfLen(n) ==
    IF n = 0 THEN {<<>>}
    ELSE { Append(x, t) : x \in TradeListsOfLen(n - 1), t \in AnalysedTrades }

\* PnLs +100, -60, +10, -80 from a balance of 1000
DrawdownExample ==
    [trades |-> [k \in 1..4 |->
                    [status |-> "CLOSED",
                     realized_pnl |-> <<100, 0 - 60, 10, 0 - 80>>[k]]],
     initial_balance |-> 1000]

AnalysisInputs ==
    { [trades |-> x, initial_balance |-> b] :
        x \in UNION { TradeListsOfLen(n) : n \in 0..MaxTrades },
        b \in 0..MaxBalance }
    \cup {DrawdownExample}

InitAnalysis ==
    /\ InitEngine
    /\ wall = 0
    /\ venue = {}
    /\ tables = NoTables
    /\ upd = NoUpdate
    /\ agg = NoAggregation
    /\ report = NoReport
    /\ fetch = NoFetch
    /\ symbol_run = NoSymbolRun
    /\ \E input \in AnalysisInputs :
          analysis = [done |-> FALSE, trades |-> input.trades,
                      initial_balance |-> input.initial_balance]

Analyze ==
    /\ ~analysis.done
    /\ analysis' = [done |-> TRUE, trades |-> analysis.trades,
                    initial_balance |-> analysis.initial_balance,
                    metrics |-> analyze_backtest(analysis.trades,
                                                 analysis.initial_balance)]
    /\ UNCHANGED <<wall, venue, tables, upd, agg, report, fetch, symbol_run, engine_vars>>

NextAnalysis == Analyze

SpecAnalysis == InitAnalysis /\ [][NextAnalysis]_vars

\* ------------------------------------------------------------ aggregation
\* The 1m rows aggregation is applied to: any minute of the range, in any
\* order, repeated or not.
InputKline(m, v) ==
    LET open == 1 + ((m + v) % MaxPrice)
        close == 1 + (((2 * m) + v) % MaxPrice)
    IN  Kline(m * MinuteMs, open, Max2(open, close) + (m % 2),
              Min2(open, close) - ((m + v) % 2), close, v, 1 + (m % 2))

InputRows == { InputKline(m, v) : m \in Minutes, v \in 1..MaxVolume }

RECURSIVE InputsOfLen(_)
InputsOfLen(n) ==
    IF n = 0 THEN {<<>>}
    ELSE { Append(x, row) : x \in InputsOfLen(n - 1), row \in InputRows }

\* Ten minutes 0..540000
TenMinutes == [k \in 1..10 |-> InputKline(k - 1, 1)]

Inputs == UNION { InputsOfLen(n) : n \in 0..MaxRows } \cup {TenMinutes}

InitAgg ==
    /\ InitEngine
    /\ wall = 0
    /\ venue = {}
    /\ tables = NoTables
    /\ upd = NoUpdate
    /\ report = NoReport
    /\ fetch = NoFetch
    /\ symbol_run = NoSymbolRun
    /\ analysis = NoAnalysis
    /\ \E data_1m \in Inputs, interval \in DOMAIN INTERVAL_MINUTES :
          agg = [NoAggregation EXCEPT !.data_1m = data_1m,
                                      !.interval = interval]

\* aggregate_to_interval on the input, and once more on its own result
Aggregate ==
    /\ ~agg.done
    /\ LET result == aggregate_to_interval(agg.data_1m, agg.interval)
       IN  agg' = [agg EXCEPT !.result = result,
                              !.again = aggregate_to_interval(result, agg.interval),
                              !.done = TRUE]
    /\ UNCHANGED <<wall, venue, tables, upd, report, fetch, symbol_run, analysis, engine_vars>>

NextAgg == Aggregate

SpecAgg == InitAgg /\ [][NextAgg]_vars

\* ===================================================================== claims
\* Helpers of the claims' formulas.
AllTrades == current_trades \o completed_trades
FillsOf(r) == { k \in 1..Len(fills) : fills[k].order = r }
StepsPerCandle == 3
HasStep(i, name) == \E k \in 1..Len(steps) : steps[k] = <<i, name>>

\* The PnL of section 4.7: LONG (p - entry) * |size|, SHORT (entry - p) * |size|.
SpecPnL(side, entry_price, qty, p) ==
    IF side = "LONG" THEN (p - entry_price) * qty * Scale
    ELSE (entry_price - p) * qty * Scale

C2_SubstepName(k) ==
    IF k > StepsPerCandle * NumCandles THEN {"final"}
    ELSE IF (k - 1) % StepsPerCandle = 0 THEN {"mark"}
    ELSE IF (k - 1) % StepsPerCandle = 1 THEN {"match"}
    ELSE {"strategy", "raise"}

C3_MarketNextCandle ==
    /\ \A k \in 1..Len(fills) : fills[k].candle > placed[fills[k].order]
    /\ \A r \in 1..Len(orders) :
          orders[r].order_type = "MARKET" =>
             /\ \A k \in FillsOf(r) :
                   /\ fills[k].candle = placed[r] + 1
                   /\ fills[k].price = candles[placed[r] + 1]
             /\ (placed[r] < NumCandles /\ HasStep(placed[r] + 1, "match"))
                   => (orders[r].status = "FILLED" /\ Cardinality(FillsOf(r)) = 1)
             /\ ~HasStep(placed[r] + 1, "match")
                   => (orders[r].status = "NEW" /\ FillsOf(r) = {})

C3_Witness ==
    \E r \in 1..Len(orders) :
       /\ orders[r].order_type = "MARKET"
       /\ orders[r].status = "FILLED"
       /\ placed[r] = 1
       /\ \E k \in FillsOf(r) : fills[k].candle = 2 /\ fills[k].price = candles[2]
       /\ candles[1] # candles[2]
       /\ pc = "done"

\* The triggering predicate of section 4.8 for a non-Market order.
SpecTrigger(order, p) ==
    CASE order.order_type = "LIMIT" ->
             IF order.side = "BUY" THEN p <= order.price ELSE p >= order.price
      [] order.order_type \in {"STOP_MARKET", "STOP_LIMIT", "TAKE_PROFIT"} ->
             IF order.side = "BUY" THEN p >= order.price ELSE p <= order.price
      [] OTHER -> FALSE

IsProcessCall == last'.op = "process" /\ clock' = clock + 1
IsCancelCall == last'.op = "cancel" /\ clock' = clock + 1
PendingNew(ords, pend) ==
    { r \in 1..Len(ords) : InSeq(pend, r) /\ ords[r].status = "NEW" }

\* C4: when process_orders runs at close p, a pending NEW non-Market order is
\* FILLED exactly when its triggering predicate holds at p (equality
\* triggers); an order whose predicate is false stays NEW and pending.
C4_FillIffTrigger ==
    [][IsProcessCall =>
         \A r \in PendingNew(orders, pending) :
            orders[r].order_type # "MARKET" =>
               IF SpecTrigger(orders[r], last'.arg)
               THEN /\ orders'[r].status = "FILLED"
                    /\ InSeq(last'.executed, r)
               ELSE /\ orders'[r] = orders[r]
                    /\ InSeq(pending', r)
                    /\ ~InSeq(last'.executed, r)]_vars

C4_Witness ==
    /\ last.op = "process"
    /\ \E r \in 1..Len(orders) :
          /\ orders[r].order_type = "STOP_MARKET"
          /\ orders[r].side = "SELL"
          /\ orders[r].status = "FILLED"
          /\ \E k \in FillsOf(r) : fills[k].price = orders[r].price
    /\ \E r \in 1..Len(orders) :
          /\ orders[r].order_type = "LIMIT"
          /\ orders[r].status = "NEW"
          /\ InSeq(pending, r)
          /\ ~SpecTrigger(orders[r], last.arg)

\* C5: an order that has fired has status FILLED with filled_at set, is no
\* longer in the pending queue, has been returned by process_orders exactly
\* once, and is never filled again.
C5_FilledState ==
    /\ \A k \in 1..Len(fills) : orders[fills[k].order].status = "FILLED"
    /\ \A r \in 1..Len(orders) :
          orders[r].status = "FILLED" =>
             /\ orders[r].filled_at # NoTime
             /\ ~InSeq(pending, r)
             /\ ~InSeq(get_pending_orders(orders, pending), r)
             /\ Cardinality(FillsOf(r)) = 1

C6_InvalidRejected ==
    \A r \in 1..Len(orders) :
       ~validate_order(orders[r], account) =>
          /\ orders[r].status = "REJECTED"
          /\ ~InSeq(pending, r)
          /\ FillsOf(r) = {}

\* C7: cancel_order(id) returns true exactly when a queued order with that id
\* is NEW; that order becomes CANCELED, leaves the pending orders and is never
\* FILLED later; a cancel that returns false changes no order and no queue
\* content.
C7_CancelStep ==
    IsCancelCall =>
       LET hits == { r \in PendingNew(orders, pending) :
                        orders[r].order_id = last'.arg }
       IN  /\ last'.result = (hits # {})
           /\ last'.result =>
                 \E r \in hits :
                    /\ orders'[r] = [orders[r] EXCEPT !.status = "CANCELED"]
                    /\ ~InSeq(get_pending_orders(orders', pending'), r)
                    /\ \A q \in 1..Len(orders) : q # r => orders'[q] = orders[q]
           /\ ~last'.result => (orders' = orders /\ pending' = pending)

C10_PnLSign ==
    \A j \in 1..Len(AllTrades) :
       LET trade == AllTrades[j]
           position == positions[trade.position_id]
       IN  /\ position.status = "OPEN" =>
                position.unrealized_pnl =
                   SpecPnL(position.side, position.entry_price,
                           Abs(position.size), position.current_price)
           /\ position.status = "CLOSED" =>
                position.realized_pnl =
                   SpecPnL(position.side, position.entry_price,
                           trade.entry_quantity, trade.exit_price)

\* C11: after any sequence of create, update_price, add, close_partial and
\* close_full calls, every position whose status is CLOSED has size 0 and
\* unrealized_pnl 0.
C11_ClosedFlat ==
    \A k \in 1..Len(positions) :
        positions[k].status = "CLOSED" =>
            positions[k].size = 0 /\ positions[k].unrealized_pnl = 0

\* A position closed earlier has just been re-priced away from its entry price.
C11_Witness ==
    /\ pc = "pm"
    /\ last.op = "update_price"
    /\ positions[last.arg].status = "CLOSED"
    /\ positions[last.arg].realized_pnl # 0
    /\ positions[last.arg].current_price # positions[last.arg].entry_price

RunTrades(r) == r.current_trades \o r.completed_trades
calculate_trade_duration(trade) == trade.exit_time - trade.entry_time

SpecFee(ords, fl, k) ==
    ords[fl[k].order].quantity * fl[k].price
        * (IF ords[fl[k].order].order_type = "MARKET"
           THEN TakerFeeRate ELSE MakerFeeRate)

RECURSIVE SpecFeeSum(_, _, _, _)
SpecFeeSum(ords, fl, from, to) ==
    IF from > to THEN 0
    ELSE SpecFee(ords, fl, to) + SpecFeeSum(ords, fl, from, to - 1)

C15_LaterCandlesRun ==
    pc = "done" =>
        \A i \in 1..NumCandles :
            HasStep(i, "raise") =>
                \A j \in (i + 1)..NumCandles :
                    /\ HasStep(j, "mark")
                    /\ HasStep(j, "match")
                    /\ HasStep(j, "strategy") \/ HasStep(j, "raise")

SpecMustFail(position, call) ==
    \/ /\ call.op \in {"add", "close_partial", "close_full"}
       /\ position.status # "OPEN"
    \/ /\ call.op = "add"
       /\ \/ position.side = "LONG" /\ call.executed[1] < 0
          \/ position.side = "SHORT" /\ call.executed[1] > 0
    \/ /\ call.op = "close_partial"
       /\ Abs(call.executed[1]) > Abs(position.size)

C18_AlignedOnePerBucket ==
    \A i \in DOMAIN INTERVAL_MINUTES :
        /\ \A r \in tables[i] :
              get_interval_start(r.open_time, INTERVAL_MINUTES[i]) = r.open_time
        /\ \A r1, r2 \in tables[i] :
              get_interval_start(r1.open_time, INTERVAL_MINUTES[i])
                  = get_interval_start(r2.open_time, INTERVAL_MINUTES[i])
              => r1 = r2

\* C19 -- what the specification says aggregation yields, stated without the
\* code's loop: the runs of the input and the row each run stands for.
bucket_start(row, interval) ==
    (row.open_time \div (INTERVAL_MINUTES[interval] * MinuteMs))
        * (INTERVAL_MINUTES[interval] * MinuteMs)

Chronological(rows) ==
    \A k \in 1..(Len(rows) - 1) : rows[k].open_time <= rows[k + 1].open_time

\* The positions where a maximal run of equal bucket_start begins
RunStarts(rows, interval) ==
    { k \in 1..Len(rows) :
        k = 1 \/ bucket_start(rows[k], interval) # bucket_start(rows[k - 1], interval) }

\* The last position of the run that begins at position a
RunEnd(rows, interval, a) ==
    CHOOSE b \in a..Len(rows) :
        /\ \A k \in a..b : bucket_start(rows[k], interval) = bucket_start(rows[a], interval)
        /\ b = Len(rows) \/ bucket_start(rows[b + 1], interval) # bucket_start(rows[a], interval)

\* The j-th smallest element of a set of positions
RECURSIVE NthStart(_, _)
NthStart(starts, j) ==
    LET first == CHOOSE a \in starts : \A b \in starts : a <= b
    IN  IF j = 1 THEN first ELSE NthStart(starts \ {first}, j - 1)

RowStandsForRun(out, rows, a, b) ==
    /\ out.open = rows[a].open
    /\ out.close = rows[b].close
    /\ out.close_time = rows[b].close_time
    /\ \A k \in a..b : rows[k].high <= out.high
    /\ \E k \in a..b : rows[k].high = out.high
    /\ \A k \in a..b : rows[k].low >= out.low
    /\ \E k \in a..b : rows[k].low = out.low
    /\ out.volume = SumOf(SubSeq(rows, a, b), "volume")
    /\ out.number_of_trades = SumOf(SubSeq(rows, a, b), "number_of_trades")

\* C19: for a chronologically ordered input (gaps allowed) and an interval
\* wider than 1m, aggregate_to_interval emits exactly one row per maximal run
\* of consecutive rows with equal bucket_start, made of the run's first open,
\* last close and close_time, highest high, lowest low and summed volume and
\* number_of_trades; output and input volumes sum to the same; ten minutes
\* 0..540000 give two 5m rows at 0 and 300000.
C19_OneRowPerRun ==
    (agg.done /\ agg.interval # "1m" /\ Chronological(agg.data_1m)) =>
        LET rows == agg.data_1m
            starts == RunStarts(rows, agg.interval)
        IN  /\ Len(agg.result) = Cardinality(starts)
            /\ \A j \in 1..Len(agg.result) :
                  LET a == NthStart(starts, j)
                  IN  RowStandsForRun(agg.result[j], rows, a,
                                      RunEnd(rows, agg.interval, a))
            /\ SumOf(agg.result, "volume") = SumOf(rows, "volume")
            /\ (rows = TenMinutes /\ agg.interval = "5m") =>
                  /\ Len(agg.result) = 2
                  /\ agg.result[1].open_time = 0
                  /\ agg.result[2].open_time = 300000

\* C19 witness: an ordered input with a gap was aggregated at 3m into two
\* rows, the first of them standing for a run of two candles that differ in
\* close.
C19_Witness ==
    /\ agg.done
    /\ agg.interval = "3m"
    /\ Chronological(agg.data_1m)
    /\ Len(agg.data_1m) = 3
    /\ Len(agg.result) = 2
    /\ agg.data_1m[1].open_time = 0
    /\ agg.data_1m[2].open_time = 2 * MinuteMs
    /\ agg.data_1m[1].close # agg.data_1m[2].close
    /\ agg.result[1].volume = agg.data_1m[1].volume + agg.data_1m[2].volume

\* C19 witness of the worked example: the ten minutes aggregated at 5m.
C19_TenMinutes ==
    agg.done /\ agg.data_1m = TenMinutes /\ agg.interval = "5m"

\* C20: aggregation is idempotent and is the identity at 1m: for every input
\* X and interval i, aggregating the result of aggregating X at i gives that
\* result again, and aggregating X at 1m gives X.
C20_IdempotentIdentity ==
    agg.done =>
        /\ agg.again = agg.result
        /\ agg.interval = "1m" => agg.result = agg.data_1m

\* C20 witness: an input out of order, with two candles of one bucket, was
\* aggregated at a wider interval into fewer rows than it had, and then once
\* more.
C20_Witness ==
    /\ agg.done
    /\ agg.interval # "1m"
    /\ ~Chronological(agg.data_1m)
    /\ Len(agg.result) >= 2
    /\ Len(agg.result) < Len(agg.data_1m)
    /\ agg.again = agg.result

\* C20 witness at 1m: rows still in text form came back as they were.
C20_IdentityWitness ==
    /\ agg.done
    /\ agg.interval = "1m"
    /\ Len(agg.data_1m) >= 2
    /\ \A k \in 1..Len(agg.data_1m) : ~agg.data_1m[k].parsed
    /\ agg.result = agg.data_1m

\* What one more call with the same 1m batch would leave in the tables
SameBatchAgain ==
    IF report.op = "ingest"
    THEN process_intervals(tables, report.data_1m, 1, {})
    ELSE IF report.data_1m = <<>> THEN tables
    ELSE insert_all_intervals(tables, report.data_1m, 1, {})

\* C21: an ingestion or update keeps every row that was stored before it
\* (first writer wins: a row whose open_time is already there is ignored), no
\* two rows of a table share an open_time, and inserting the same batch once
\* more leaves every table, and so every row count, as it is.
C21_FirstWriterWins ==
    report.op # "none" =>
        /\ \A i \in DOMAIN INTERVAL_MINUTES :
              /\ report.before[i] \subseteq tables[i]
              /\ \A r1, r2 \in tables[i] : r1.open_time = r2.open_time => r1 = r2
        /\ report.failing = {} => SameBatchAgain = tables

\* C21 witness: an incremental update met a coarser bucket again -- a row of
\* its aggregated batch has the open_time of a row stored before, with other
\* content -- and the stored row is still there.
C21_Witness ==
    /\ report.op = "update"
    /\ report.failing = {}
    /\ \E i \in DOMAIN INTERVAL_MINUTES \ {"1m"} :
          LET batch == aggregate_to_interval(report.data_1m, i)
          IN  \E k \in 1..Len(batch) : \E r \in report.before[i] :
                 /\ r.open_time = batch[k].open_time
                 /\ r.volume # batch[k].volume
                 /\ r \in tables[i]

\* The rows of the batches, each batch newest first, one batch after another
RECURSIVE Persisted(_)
Persisted(batches) ==
    IF batches = <<>> THEN <<>>
    ELSE Reverse(batches[1]) \o Persisted(Tail(batches))

\* C22, the safety part: the first request ends at now and every later one
\* just below the smallest open_time of the batch before it, so the ends
\* strictly decrease; every batch but the last is non-empty, the file holds
\* exactly the batches received, and the fetch has stopped if and only if the
\* last batch was empty.
C22_BackwardSerial ==
    fetch.pc # "idle" =>
        /\ fetch.ends[1] = wall * MinuteMs
        /\ Len(fetch.ends) = Len(fetch.batches) + (IF fetch.pc = "done" THEN 0 ELSE 1)
        /\ \A k \in 2..Len(fetch.ends) :
              /\ fetch.batches[k - 1] # <<>>
              /\ fetch.ends[k] = MinOf(fetch.batches[k - 1], "open_time") - 1
              /\ fetch.ends[k] < fetch.ends[k - 1]
        /\ fetch.file = Persisted(fetch.batches)
        /\ fetch.pc = "done" <=>
              (fetch.batches # <<>> /\ fetch.batches[Len(fetch.batches)] = <<>>)

\* C22: the historical fetcher asks backwards in time, request after request,
\* persists every non-empty batch, stops at the first empty one, and so
\* terminates for every venue with a finite history.
C22_FetchTerminates ==
    []C22_BackwardSerial /\ <>(fetch.pc = "done" /\ fetch.returned)

\* C22 witness: the venue answered a full batch, a full batch, then an empty
\* one; twice ApiLimit rows are in the file and the fetch has stopped.
C22_Witness ==
    /\ fetch.pc = "done"
    /\ Len(fetch.batches) = 3
    /\ Len(fetch.batches[1]) = ApiLimit
    /\ Len(fetch.batches[2]) = ApiLimit
    /\ Len(fetch.file) = 2 * ApiLimit
    /\ fetch.requests = 1
    /\ fetch.file[1].open_time > fetch.file[Len(fetch.file)].open_time

\* C23: one _fetch_klines call makes at most MAX_RETRIES requests; it returns
\* at its first successful request, so every request before the last one
\* failed; it sleeps once after each failed attempt but the last of the
\* MAX_RETRIES; and when all MAX_RETRIES attempts failed it returns an empty
\* batch and the caller goes on (here: stops and returns True), no error is
\* raised.
C23_BoundedRetries ==
    /\ fetch.requests <= MAX_RETRIES
    /\ (fetch.pc = "attempt" /\ fetch.attempt > 1) =>
          /\ fetch.requests = fetch.attempt - 1
          /\ fetch.failures = fetch.requests
          /\ fetch.sleeps = fetch.failures
    /\ (fetch.batches # <<>> /\ (fetch.pc = "done" \/ fetch.attempt = 1)) =>
          \/ /\ fetch.failures = fetch.requests - 1
             /\ fetch.sleeps = fetch.failures
          \/ /\ fetch.failures = MAX_RETRIES
             /\ fetch.requests = MAX_RETRIES
             /\ fetch.sleeps = MAX_RETRIES - 1
             /\ fetch.batches[Len(fetch.batches)] = <<>>
             /\ fetch.pc = "done"
             /\ fetch.returned

\* C23 witness: after one batch, all MAX_RETRIES attempts of the next call
\* failed; the call slept between them only and returned an empty batch.
C23_Witness ==
    /\ fetch.pc = "done"
    /\ Len(fetch.batches) = 2
    /\ fetch.batches[1] # <<>>
    /\ fetch.failures = MAX_RETRIES
    /\ fetch.sleeps = MAX_RETRIES - 1
    /\ fetch.end_time >= MinuteMs

\* C23 witness of a recovered call: two failed attempts, then a response.
C23_RecoveredWitness ==
    /\ fetch.pc = "attempt"
    /\ fetch.attempt = 1
    /\ fetch.requests = 3
    /\ fetch.failures = 2
    /\ fetch.sleeps = 2
    /\ Len(fetch.batches) = 1

\* C24: in the forward fetch of the updater the cursor moves, after each
\* batch, to the largest open_time collected plus one, so it strictly
\* increases from one request to the next, and no candle is collected twice.
C24_CursorAdvances ==
    [][(upd.pc = "fetch" /\ upd'.pc = "fetch" /\ upd' # upd) =>
          /\ upd'.start_time = upd'.all_data[Len(upd'.all_data)].open_time + 1
          /\ upd'.start_time > upd.start_time
          /\ \A j, k \in 1..Len(upd'.all_data) :
                j # k => upd'.all_data[j].open_time # upd'.all_data[k].open_time]_vars

\* The volume the venue's candles between two times add up to
RECURSIVE VenueVolume(_, _, _)
VenueVolume(held, from, to) ==
    IF held = {} THEN 0
    ELSE LET m == CHOOSE x \in held : TRUE
         IN  (IF from <= m * MinuteMs /\ m * MinuteMs <= to
              THEN VenueKline(m).volume ELSE 0)
             + VenueVolume(held \ {m}, from, to)

\* C25: an update run inserts exactly the venue's new candles -- every row it
\* adds to a table covers candles newer than the last stored 1m row and
\* carries their volume, each candle counted once -- and a run that finds no
\* newer candle at the venue inserts nothing and returns True.
C25_InsertsExactlyNew ==
    report.op = "update" =>
        LET last_1m == get_latest_timestamp(report.before["1m"])
        IN  /\ \A i \in DOMAIN INTERVAL_MINUTES :
                  \A r \in tables[i] \ report.before[i] :
                      /\ r.open_time > last_1m
                      /\ r.volume = VenueVolume(venue, r.open_time, r.close_time)
            /\ (\A m \in venue : m * MinuteMs <= last_1m) =>
                  (tables = report.before /\ report.returned)

\* C27: the inserts made from one ingested 1m file are one transaction: when
\* an insert for the file fails, process_csv_file returns False and no row of
\* the file is left in any table.
C27_FileIsOneTransaction ==
    report.op = "ingest" =>
        /\ report.returned <=> report.failing = {}
        /\ ~report.returned => tables = report.before

\* C26: when a list of symbols is processed, a symbol is reported False
\* exactly when something failed while it was processed -- retries exhausted,
\* store error or file error -- whatever happened to the symbols before it.
C26_FailureReportedPerSymbol ==
    \A k \in 1..Len(symbol_run.results) :
        symbol_run.results[k] <=> symbol_run.events[k] = "ok"

\* C28: in every analysed result winning_trades is the number of CLOSED
\* trades with realized_pnl > 0, winning_trades + losing_trades =
\* closed_trades <= total_trades, and win_rate = winning / closed * 100, or 0
\* when no trade is closed, so that 0 <= win_rate <= 100.
C28_WinRate ==
    analysis.done =>
        LET m == analysis.metrics
            closed == { k \in 1..Len(analysis.trades) :
                          analysis.trades[k].status = "CLOSED" }
            won == { k \in closed : analysis.trades[k].realized_pnl > 0 }
        IN  /\ m.total_trades = Len(analysis.trades)
            /\ m.closed_trades = Cardinality(closed)
            /\ m.winning_trades = Cardinality(won)
            /\ m.winning_trades + m.losing_trades = m.closed_trades
            /\ m.closed_trades <= m.total_trades
            /\ m.win_rate.den > 0
            /\ IF closed = {} THEN m.win_rate.num = 0
               ELSE RatEq(m.win_rate, Rat(Cardinality(won) * 100, Cardinality(closed)))
            /\ RatLeq(Rat(0, 1), m.win_rate)
            /\ RatLeq(m.win_rate, Rat(100, 1))

\* C28 witness: a result with a won trade, a closed trade that broke even and
\* an open trade with a gain was analysed: one of two closed trades is won.
C28_Witness ==
    /\ analysis.done
    /\ Len(analysis.trades) = 3
    /\ \E j, k, l \in 1..3 :
          /\ analysis.trades[j].status = "CLOSED"
          /\ analysis.trades[j].realized_pnl > 0
          /\ analysis.trades[k].status = "CLOSED"
          /\ analysis.trades[k].realized_pnl = 0
          /\ analysis.trades[l].status = "OPEN"
          /\ analysis.trades[l].realized_pnl > 0
    /\ RatEq(analysis.metrics.win_rate, Rat(50, 1))

\* The sum of the realized PnLs of the CLOSED trades among the first k, gains
\* (sign 1) or losses (sign -1) only
RECURSIVE ClosedPnl(_, _, _)
ClosedPnl(trades, k, sign) ==
    IF k = 0 THEN 0
    ELSE ClosedPnl(trades, k - 1, sign)
         + (IF trades[k].status = "CLOSED" /\ trades[k].realized_pnl * sign > 0
            THEN trades[k].realized_pnl ELSE 0)

\* C29: profit_factor is the sum of the positive realized PnLs of the CLOSED
\* trades over the absolute value of the sum of the negative ones; when the
\* latter is 0 it is 999999 if the former is > 0 and 0 otherwise; it is never
\* negative and never a division by zero.
C29_ProfitFactor ==
    analysis.done =>
        LET pf == analysis.metrics.profit_factor
            gains == ClosedPnl(analysis.trades, Len(analysis.trades), 1)
            losses == ClosedPnl(analysis.trades, Len(analysis.trades), 0 - 1)
        IN  /\ pf.den > 0
            /\ pf.num >= 0
            /\ IF losses = 0
               THEN RatEq(pf, IF gains > 0 THEN Rat(999999, 1) ELSE Rat(0, 1))
               ELSE RatEq(pf, Rat(gains, Abs(losses)))

\* C29 witness: closed trades with a gain and with two losses, and an open
\* trade, were analysed; the factor is gain over the size of the losses.
C29_Witness ==
    /\ analysis.done
    /\ ClosedPnl(analysis.trades, Len(analysis.trades), 1) = 2
    /\ ClosedPnl(analysis.trades, Len(analysis.trades), 0 - 1) = 0 - 3
    /\ RatEq(analysis.metrics.profit_factor, Rat(2, 3))

\* C29 witness of the two cases without losses: 999999 for a gain alone.
C29_NoLossWitness ==
    /\ analysis.done
    /\ ClosedPnl(analysis.trades, Len(analysis.trades), 1) > 0
    /\ ClosedPnl(analysis.trades, Len(analysis.trades), 0 - 1) = 0
    /\ analysis.metrics.profit_factor = Rat(999999, 1)

\* The balance after the first j trades: initial_balance and the realized
\* PnLs of the CLOSED ones
BalanceAfter(j) ==
    analysis.initial_balance + ClosedPnl(analysis.trades, j, 1)
                             + ClosedPnl(analysis.trades, j, 0 - 1)

\* The highest balance up to and including trade j
PeakAfter(j) ==
    CHOOSE b \in { BalanceAfter(k) : k \in 0..j } :
        \A k \in 0..j : BalanceAfter(k) <= b

\* C30: max_drawdown is the largest, over the prefixes of the CLOSED trades in
\* list order, of (running maximum - running balance) / running maximum * 100
\* (taken where the running maximum is positive); it is 0 when there are no
\* trades and never negative; PnLs +100, -60, +10, -80 from 1000 give
\* (1100 - 970) / 1100 * 100.
C30_MaxDrawdown ==
    analysis.done =>
        LET dd == analysis.metrics.max_drawdown
            prefixes == { j \in 1..Len(analysis.trades) :
                            analysis.trades[j].status = "CLOSED" /\ PeakAfter(j) > 0 }
            DrawdownAt(j) == Rat((PeakAfter(j) - BalanceAfter(j)) * 100, PeakAfter(j))
        IN  /\ dd.den > 0
            /\ RatLeq(Rat(0, 1), dd)
            /\ \A j \in prefixes : RatLeq(DrawdownAt(j), dd)
            /\ \/ dd.num = 0
               \/ \E j \in prefixes : RatEq(dd, DrawdownAt(j))
            /\ analysis.trades = <<>> => dd.num = 0
            /\ (analysis.trades = DrawdownExample.trades
                  /\ analysis.initial_balance = DrawdownExample.initial_balance)
               => RatEq(dd, Rat((1100 - 970) * 100, 1100))

\* C30 witness: a gain, then a loss, then a smaller loss were analysed: the
\* drawdown is measured from the raised maximum at the last trade.
C30_Witness ==
    /\ analysis.done
    /\ analysis.initial_balance = 2
    /\ Len(analysis.trades) = 3
    /\ \A k \in 1..3 : analysis.trades[k].status = "CLOSED"
    /\ analysis.trades[1].realized_pnl = 2
    /\ analysis.trades[2].realized_pnl = 0 - 2
    /\ analysis.trades[3].realized_pnl = 0 - 1
    /\ RatEq(analysis.metrics.max_drawdown, Rat(300, 4))

\* C30 witness of the worked example
C30_ExampleWitness ==
    /\ analysis.done
    /\ analysis.trades = DrawdownExample.trades
    /\ analysis.initial_balance = 1000

PositionIds(trades) == [k \in 1..Len(trades) |-> trades[k].position_id]

\* C31: the final loop closes the remaining positions in the order of the
\* live trade map and the Trades are appended to completed_trades in that
\* order of closing; every closed position's Trade is there exactly once; and
\* no Trade is in the live map and in completed_trades at the same time.
C31_CompletedInClosingOrder ==
    [][/\ (pc = "final" /\ pc' = "done") =>
             PositionIds(completed_trades')
                 = PositionIds(completed_trades) \o PositionIds(current_trades)
       /\ \A p \in 1..Len(positions') :
             positions'[p].status = "CLOSED" =>
                Cardinality({ k \in 1..Len(completed_trades') :
                                completed_trades'[k].position_id = p }) = 1
       /\ \A j \in 1..Len(current_trades'), k \in 1..Len(completed_trades') :
             /\ current_trades'[j].trade_id # completed_trades'[k].trade_id
             /\ current_trades'[j].position_id # completed_trades'[k].position_id]_vars

\* C31 witness: two positions were open at the end of the candles and were
\* closed one after the other; their Trades are completed in that order.
C31_Witness ==
    /\ pc = "done"
    /\ Len(completed_trades) = 2
    /\ current_trades = <<>>
    /\ completed_trades[1].position_id = 1
    /\ completed_trades[2].position_id = 2
    /\ positions[1].status = "CLOSED"
    /\ positions[2].status = "CLOSED"

\* C32: close_partial(delta, p) on an OPEN position with |delta| <= |size|
\* succeeds, adds pnl(delta, p) = (p - entry)*|delta| for LONG and
\* (entry - p)*|delta| for SHORT to realized_pnl, sets size to size - delta,
\* and sets status CLOSED with unrealized_pnl 0 exactly when the new size is 0;
\* otherwise the position stays OPEN and unrealized_pnl is what the PnL
\* calculator gives for the remaining size at the current price (for a LONG,
\* (current - entry) * size).  No other field changes.
C32_ClosePartial ==
    [][(/\ clock' # clock
        /\ last'.op = "close_partial"
        /\ positions[last'.arg].status = "OPEN"
        /\ Abs(last'.executed[1]) <= Abs(positions[last'.arg].size)) =>
            LET before == positions[last'.arg]
                after == positions'[last'.arg]
                delta == last'.executed[1]
                p == last'.executed[2]
            IN  /\ last'.result = TRUE
                /\ after.realized_pnl = before.realized_pnl
                      + SpecPnL(before.side, before.entry_price, Abs(delta), p)
                /\ after.size = before.size - delta
                /\ (after.status = "CLOSED") <=> (after.size = 0)
                /\ after.size = 0 => after.unrealized_pnl = 0
                /\ after.size # 0 =>
                      /\ after.status = "OPEN"
                      /\ after.unrealized_pnl =
                            calculate_unrealized_pnl(after, after.current_price)
                      /\ after.side = "LONG" =>
                            after.unrealized_pnl =
                               (after.current_price - after.entry_price)
                                  * after.size * Scale
                /\ after = [before EXCEPT !.size = after.size,
                                          !.status = after.status,
                                          !.realized_pnl = after.realized_pnl,
                                          !.unrealized_pnl = after.unrealized_pnl]]_vars

\* A LONG position of size 2, marked away from its entry price, has just been
\* reduced to size 1 at a gain and is still OPEN with a nonzero unrealized PnL.
C32_Witness ==
    /\ pc = "pm"
    /\ last.op = "close_partial"
    /\ last.result = TRUE
    /\ last.executed[1] = 1
    /\ positions[last.arg].side = "LONG"
    /\ positions[last.arg].status = "OPEN"
    /\ positions[last.arg].size = 1
    /\ positions[last.arg].realized_pnl > 0
    /\ positions[last.arg].unrealized_pnl # 0

\* A SHORT position has just been closed completely by a partial close of its
\* whole size, at a loss.
C32_ClosedWitness ==
    /\ pc = "pm"
    /\ last.op = "close_partial"
    /\ last.result = TRUE
    /\ last.executed[1] < 0
    /\ positions[last.arg].side = "SHORT"
    /\ positions[last.arg].status = "CLOSED"
    /\ positions[last.arg].size = 0
    /\ positions[last.arg].realized_pnl < 0
    /\ positions[last.arg].unrealized_pnl = 0

\* C33: add(delta_size, delta_price) on an OPEN position whose side agrees in
\* sign with delta_size (LONG and delta_size > 0, SHORT and delta_size < 0)
\* sets size to size + delta_size and entry_price to
\* (entry_price*size + delta_price*|delta_size|) / (size + delta_size), then
\* recomputes unrealized_pnl; for LONG and for SHORT the new entry_price lies
\* between the old entry_price and delta_price.
C33_WeightedAverage ==
    [][(/\ clock' # clock
        /\ last'.op = "add"
        /\ positions[last'.arg].status = "OPEN"
        /\ \/ positions[last'.arg].side = "LONG" /\ positions[last'.arg].size > 0
              /\ last'.executed[1] > 0
           \/ positions[last'.arg].side = "SHORT" /\ positions[last'.arg].size < 0
              /\ last'.executed[1] < 0) =>
            LET before == positions[last'.arg]
                after == positions'[last'.arg]
                delta_size == last'.executed[1]
                delta_price == last'.executed[2]
            IN  /\ last'.result = TRUE
                /\ after.size = before.size + delta_size
                /\ after.entry_price =
                      DecDiv(before.entry_price * before.size
                                + delta_price * Abs(delta_size),
                             before.size + delta_size)
                /\ after.unrealized_pnl =
                      calculate_unrealized_pnl(after, after.current_price)
                /\ Min2(before.entry_price, delta_price) <= after.entry_price
                /\ after.entry_price <= Max2(before.entry_price, delta_price)]_vars

\* C34: the forward fetch of the updater terminates: against a venue that
\* holds finitely many 1m candles and answers each request with the at most
\* API_LIMIT latest candles up to endTime, ascending, fetch_new_data returns
\* after finitely many requests.  The loop is deterministic against such a
\* venue, so it can only be finite if no request leaves it running with the
\* cursor where it was: every request after which the loop goes on has moved
\* start_time.
C34_ForwardFetchTerminates ==
    [][(upd.pc = "fetch" /\ upd'.pc = "fetch" /\ upd' # upd) =>
          upd'.start_time # upd.start_time]_vars

\* Every minute stored in the 1m table lies within a row of each table
CoversEveryMinute(tabs) ==
    \A i \in DOMAIN INTERVAL_MINUTES :
       \A r \in tabs["1m"] :
          \E q \in tabs[i] : q.open_time <= r.open_time /\ r.close_time <= q.close_time

\* C35: when, in a run of update_symbol on tables that covered every stored
\* minute, the insert of a coarser interval fails after the 1m insert was
\* committed, the next run of the updater that inserts new candles without a
\* failure leaves every interval table covering every minute of the 1m table
\* again.
C35_LaterRunRepairs ==
    [][(/\ report.op = "update"
        /\ ~report.returned
        /\ report.failing # {}
        /\ "1m" \notin report.failing
        /\ CoversEveryMinute(report.before)
        /\ report' # report
        /\ report'.op = "update"
        /\ report'.returned
        /\ report'.data_1m # <<>>) =>
            CoversEveryMinute(tables')]_vars

\* C36: fetch_historical_data returns True for a symbol only when the
\* pagination stopped because the venue has no older candle: the last call
\* of _fetch_klines did not fail all its MAX_RETRIES attempts, and every
\* candle the venue holds up to the starting time is in the file.
C36_SuccessMeansComplete ==
    (fetch.pc = "done" /\ fetch.returned) =>
        /\ fetch.failures < MAX_RETRIES
        /\ \A m \in venue :
              m * MinuteMs <= fetch.ends[1] =>
                 \E k \in 1..Len(fetch.file) : fetch.file[k].open_time = m * MinuteMs

\* C37: no step of run_backtest changes the free or the locked balance of
\* the account -- fills, fees and the PnL of closed trades go to
\* total_fees_paid and total_pnl only -- so when the run returns
\* final_balance (the total equity) equals initial_balance and total_return
\* is 0.
C37_BalancesUntouched ==
    /\ [][account'.free = account.free /\ account'.locked = account.locked]_vars
    /\ [](pc = "done" =>
            /\ get_total_equity(account, positions) = InitialBalance * Scale
            /\ RatEq(total_return(InitialBalance * Scale,
                                  get_total_equity(account, positions)),
                     Rat(0, 1)))

\* A finished run that paid fees and closed a trade with a gross gain: the
\* balance is still the initial one.
C37_Witness ==
    /\ pc = "done"
    /\ account.total_fees_paid > 0
    /\ account.total_pnl > 0
    /\ Len(completed_trades) > 0
    /\ account.free = InitialBalance * Scale
    /\ account.locked = 0

\* sum(t.total_fees for t in trades)
RECURSIVE TradeFees(_)
TradeFees(trades) ==
    IF trades = <<>> THEN 0 ELSE Head(trades).total_fees + TradeFees(Tail(trades))

TradeOutcome(trade) ==
    [trade EXCEPT !.trade_id = 0, !.entry_order_id = 0,
                  !.entry_time = 0, !.exit_time = 0]

\* C39: after reset_engine the engine is like a new one: no pending order,
\* position, live trade or completed trade of the earlier run remains, and a
\* backtest of the same strategy and candles ends with the same Trades and
\* the same account figures (from which the metrics are computed) as on a
\* newly constructed engine.
C39_ResetIsFresh ==
    last.op = "reset" =>
        /\ steps = <<>> =>
              /\ get_pending_orders(orders, pending) = <<>>
              /\ positions = <<>>
              /\ current_trades = <<>>
              /\ completed_trades = <<>>
        /\ pc = "done" =>
              /\ Len(completed_trades) = Len(run2.completed_trades)
              /\ \A k \in 1..Len(completed_trades) :
                    TradeOutcome(completed_trades[k])
                       = TradeOutcome(run2.completed_trades[k])
              /\ account = run2.account

\* C40: a successful close_partial never increases exposure: for LONG and
\* SHORT positions and either sign of the size delta, |size| after the call
\* is |size| before the call minus |delta|, and the side is unchanged.
C40_NeverIncreasesExposure ==
    [][(/\ clock' # clock
        /\ last'.op = "close_partial"
        /\ last'.result = TRUE) =>
            /\ Abs(positions'[last'.arg].size)
                  = Abs(positions[last'.arg].size) - Abs(last'.executed[1])
            /\ positions'[last'.arg].side = positions[last'.arg].side]_vars

====
